---- MODULE Spec2Model ----
(***************************************************************************)
(* SecretHawk API: repository monitoring (webhooks, scheduler, manual      *)
(* triggers), the repository scan task and the archive scan task, over the *)
(* three SQLite tables `repositories`, `scans` and `findings`.             *)
(*                                                                         *)
(* Every coroutine is cut at its awaits on the storage layer: one action   *)
(* is one storage call (which takes effect or raises) followed by the      *)
(* synchronous code up to the next await.  git clone and the directory     *)
(* scan are blocking calls without an await, so they run inside one step.  *)
(*                                                                         *)
(* The fields of every record are written in the order in which TLC keeps  *)
(* them (the order in which the names first occur in this module), so a    *)
(* record never has to be reordered while two workers are reading it.      *)
(***************************************************************************)
EXTENDS Integers, Sequences, FiniteSets, TLC

\* ----------------------------------------------------------------------
\* Bounds of the model
\* ----------------------------------------------------------------------
MaxTasks == 2        \* background tasks ever queued
MaxTime == 1         \* the clock runs from 0 to MaxTime
MaxFindings == 1     \* findings one directory scan returns
MaxCommits == 1      \* commits carried by one webhook payload

\* timedelta(minutes=30) of _should_scan_repository, in clock units of 30 minutes
Cooldown == 1

\* ----------------------------------------------------------------------
\* Values
\* ----------------------------------------------------------------------
RepoIds == {"r1"}                 \* ids create_repository can hand out
UnknownId == "r0"                 \* an id no repository ever gets
RequestIds == RepoIds \cup {UnknownId}
Providers == {"github", "gitlab"}

Null == "null"                    \* Python None in a text column or header
None == <<"None">>                \* Python None where a secret or token is expected
NoTime == -1                      \* Python None in last_scan
NoCount == -1                     \* Python None in findings_count

\* RepositoryStatus, models/repository.py
ACTIVE == "active"
INACTIVE == "inactive"
ERROR == "error"
RepositoryStatus == {ACTIVE, INACTIVE, ERROR}

\* ScanStatus, models/scan.py
PENDING == "pending"
RUNNING == "running"
COMPLETED == "completed"
FAILED == "failed"

\* str(uuid.uuid4()) of create_repository: a fresh non-empty string per repository
GeneratedSecret(rid) == <<"whsec", rid>>
ForeignSecret == <<"whsec", "other">>
EmptySecret == <<>>
Secrets == {GeneratedSecret(r) : r \in RepoIds} \cup {ForeignSecret}

\* A git ref is the sequence of its "/"-separated segments: refs/heads/main is
\* <<"refs","heads","main">>; the empty sequence is the empty string that
\* payload.get("ref", "") yields when the payload has no ref.
RefMain == <<"refs", "heads", "main">>
RefMaster == <<"refs", "heads", "master">>
RefFeature == <<"refs", "heads", "feature-x">>
RefNested == <<"refs", "heads", "release", "main">>
RefBareMain == <<"main">>
RefNone == <<>>
Refs == {RefMain, RefMaster, RefFeature, RefNested, RefBareMain, RefNone}

\* str.endswith(name) without the separator: the bare branch name matches too
EndsWithSegment_NoSeparator(ref, name) == Len(ref) >= 1 /\ ref[Len(ref)] = name

\* str.endswith("/" + name): a separator followed by the last segment
EndsWithSegment(ref, name) == Len(ref) >= 2 /\ ref[Len(ref)] = name

\* Request bodies: a JSON object with ref and commits[], or bytes that
\* json.loads rejects.
MalformedBody == [ref |-> RefNone, json |-> FALSE, commits |-> 0]
JsonBodies == [json : {TRUE}, ref : Refs, commits : 0..MaxCommits]
Bodies == JsonBodies \cup {MalformedBody}

\* hmac.new(secret, body, sha256).hexdigest(): a keyed digest, taken to be
\* collision free (distinct (secret, body) pairs give distinct digests)
HmacSha256Hex(secret, body) == [key |-> secret, msg |-> body]
NoDigest == [key |-> EmptySecret, msg |-> MalformedBody]

\* The X-Hub-Signature-256 header: absent, or a prefix followed by a digest
NoSignature == [present |-> FALSE, prefix |-> "", digest |-> NoDigest]
EmptySignature == [present |-> TRUE, prefix |-> "", digest |-> NoDigest]
Signed(prefix, secret, body) ==
    [present |-> TRUE, prefix |-> prefix, digest |-> HmacSha256Hex(secret, body)]
GithubSignature(secret, body) == Signed("sha256=", secret, body)


\* ----------------------------------------------------------------------
\* State
\* ----------------------------------------------------------------------
VARIABLES
    repositories,   \* table repositories: id -> row
    issued,         \* repository ids create_repository has handed out
    scans,          \* table scans: job id -> row
    findings,       \* table findings: job id -> number of rows with that job_id
    tasks,          \* background tasks, in the order they were queued
    fs,             \* temporary files and directories that exist
    sched,          \* the scheduler thread's event loop
    now,            \* datetime.utcnow()
    request,        \* the webhook request that has arrived and is not answered yet
    response,       \* the answer to the webhook request handled last
    runner,         \* one call of ScanRunner.scan_directory: its inputs and progress
    redaction       \* a secret on its way through redact_secret

vars == <<repositories, issued, scans, findings, tasks, fs, sched, now, request, response, runner, redaction>>

TaskIds == 1..MaxTasks

\* Messages of the exceptions the scan paths can meet (str(e))
StorageErrorText == "database is locked"
CloneErrorText == "Git clone failed: fatal: could not read from remote repository"
BadZipText == "Invalid ZIP file"
ScanFailedText(e) == IF e = StorageErrorText THEN "Scan failed: database is locked"
                     ELSE "Scan failed: unreadable archive"

\* Paths of the temporary workspace of task t
CloneDir(t) == <<"secrethawk_clone", t>>
ExtractDir(t) == <<"extract", t>>
UploadDir(t) == <<"upload", t>>
UploadFile(t) == <<"upload", t, "archive.zip">>

\* ----------------------------------------------------------------------
\* Storage layer (storage/repositories.py)
\* ----------------------------------------------------------------------
\* RepositoryRepository.get_by_id: the row, found or not
RepoExists(rid) == rid \in DOMAIN repositories

\* RepositoryRepository.update_scan_status: writes last_scan, last_scan_status
\* and, when given, findings_count; the error argument reaches no column.
update_scan_status(rid, status, scan_time, findings_count, error) ==
    IF rid \in DOMAIN repositories
    THEN [repositories EXCEPT ![rid] =
            [@ EXCEPT !.last_scan = scan_time,
                      !.last_scan_status = status,
                      !.findings_count =
                          IF findings_count # NoCount THEN findings_count ELSE @]]
    ELSE repositories

\* ScanRepository.create: INSERT INTO scans (id, filename, status, created_at)
scan_create(job, filename, status) ==
    scans @@ (job :> [status |-> status, findings_count |-> NoCount, error |-> Null,
                      filename |-> filename])

\* ScanRepository.update_status: UPDATE scans SET status, error
update_status(job, status, error) ==
    IF job \in DOMAIN scans
    THEN [scans EXCEPT ![job] = [@ EXCEPT !.status = status, !.error = error]]
    ELSE scans

\* update_completion writing the status and leaving findings_count as it was
update_completion_StatusOnly(job, status, findings_count) ==
    IF job \in DOMAIN scans
    THEN [scans EXCEPT ![job] = [@ EXCEPT !.status = status]]
    ELSE scans

\* ScanRepository.update_completion: UPDATE scans SET status, completed_at,
\* findings_count (completed_at is read by no operation modelled here)
update_completion(job, status, findings_count) ==
    IF job \in DOMAIN scans
    THEN [scans EXCEPT ![job] = [@ EXCEPT !.status = status,
                                          !.findings_count = findings_count]]
    ELSE scans

\* RepositoryRepository.get_active_repositories:
\* WHERE status = 'active' ORDER BY last_scan ASC NULLS FIRST
RECURSIVE SortByLastScan(_)
SortByLastScan(ids) ==
    IF ids = {} THEN <<>>
    ELSE LET first == CHOOSE r \in ids :
                         \A q \in ids : repositories[r].last_scan <= repositories[q].last_scan
         IN  <<[status |-> repositories[first].status, last_scan |-> repositories[first].last_scan,
                id |-> first]>>
             \o SortByLastScan(ids \ {first})

get_active_repositories ==
    SortByLastScan({r \in DOMAIN repositories : repositories[r].status = ACTIVE})

\* ----------------------------------------------------------------------
\* Background tasks
\* ----------------------------------------------------------------------
\* A task is the coroutine's position (pc) and locals; trig_inactive notes
\* whether the repository was inactive when the trigger queued the task, and
\* archive what the uploaded file turned out to be when it was opened;
\* scan_time is the datetime.utcnow() already evaluated for an
\* update_scan_status call that the thread has not queued yet.
NewTask(kind, origin, rid, payload, pc) ==
    [scan_time |-> NoTime, kind |-> kind, origin |-> origin, payload |-> payload, pc |-> pc,
     repo |-> rid,
     trig_inactive |-> rid \in DOMAIN repositories /\ repositories[rid].status = INACTIVE,
     has_job |-> FALSE, temp_dir |-> FALSE, clone_failed |-> FALSE, archive |-> Null, found |-> 0,
     saved |-> 0, err |-> Null, outcome |-> Null]

NoPayload == MalformedBody

\* no request in flight; no response sent yet
NoRequest == [body |-> MalformedBody, id |-> UnknownId, pending |-> FALSE, endpoint |-> Null,
              signature |-> NoSignature, token |-> None, event |-> Null]
NoResponse == [status |-> 0, endpoint |-> Null, message |-> Null, logged |-> Null]

\* no call of scan_directory under way
NoRunner == [pc |-> "none"]
\* no secret under redaction
NoRedaction == [pc |-> "none"]

Init ==
    /\ repositories = << >>
    /\ issued = {}
    /\ scans = << >>
    /\ findings = [j \in TaskIds |-> 0]
    /\ tasks = << >>
    /\ fs = {}
    /\ sched = [pc |-> "idle", todo |-> << >>]
    /\ now = 0
    /\ request = NoRequest
    /\ response = NoResponse
    /\ runner = NoRunner
    /\ redaction = NoRedaction

\* ----------------------------------------------------------------------
\* Repository management (routers/repositories.py)
\* ----------------------------------------------------------------------
\* create_repository: a new row with a generated webhook secret, status active,
\* and the initial scan queued.
CreateRepository(rid, provider) ==
    /\ rid \notin issued
    /\ Len(tasks) < MaxTasks
    /\ issued' = issued \cup {rid}
    /\ repositories' = repositories @@
          (rid :> [status |-> ACTIVE, findings_count |-> NoCount, last_scan |-> NoTime,
                   last_scan_status |-> Null, provider |-> provider,
                   webhook_secret |-> GeneratedSecret(rid)])
    /\ tasks' = Append(tasks, NewTask("repo", "initial", rid, NoPayload, "get"))
    /\ UNCHANGED <<scans, findings, fs, sched, now, request, response, runner, redaction>>

\* update_repository: PUT with a status
UpdateRepository(rid, status) ==
    /\ rid \in DOMAIN repositories
    /\ repositories[rid].status # status
    /\ repositories' = [repositories EXCEPT ![rid].status = status]
    /\ UNCHANGED <<issued, scans, findings, tasks, fs, sched, now, request, response, runner, redaction>>

\* delete_repository
DeleteRepository(rid) ==
    /\ rid \in DOMAIN repositories
    /\ repositories' = [r \in DOMAIN repositories \ {rid} |-> repositories[r]]
    /\ UNCHANGED <<issued, scans, findings, tasks, fs, sched, now, request, response, runner, redaction>>

\* trigger_manual_scan: 404 for an unknown id, else the scan is queued
TriggerManualScan(rid) ==
    /\ rid \in DOMAIN repositories
    /\ Len(tasks) < MaxTasks
    /\ tasks' = Append(tasks, NewTask("repo", "manual", rid, NoPayload, "get"))
    /\ UNCHANGED <<repositories, issued, scans, findings, fs, sched, now, request, response, runner, redaction>>

\* ----------------------------------------------------------------------
\* Webhooks (routers/webhooks.py)
\* ----------------------------------------------------------------------
\* a verification that compares the key of the digest and not the signed body
_verify_github_signature_KeyOnly(body, signature, secret) ==
    signature.present /\ signature.digest.key = secret

\* _verify_github_signature
_verify_github_signature(body, signature, secret) ==
    IF ~signature.present \/ signature = EmptySignature \/ secret \in {None, EmptySecret}
    THEN FALSE
    ELSE signature = Signed("sha256=", secret, body)

\* gitlab_webhook: `token != repo.webhook_secret` is the rejection test
_verify_gitlab_token(token, secret) == token = secret

\* What the body of a handler's try block ends in: a return value, or a raised
\* exception (an HTTPException with its status, or another error as status 0).
Returned(message, queue) ==
    [status |-> 200, message |-> message, queue |-> queue, raised |-> FALSE]
Raised(status, detail) ==
    [status |-> status, message |-> detail, queue |-> FALSE, raised |-> TRUE]

IsMainPush(body) == EndsWithSegment(body.ref, "main") \/ EndsWithSegment(body.ref, "master")

\* a try block that queues the scan before it verifies the request
WebhookTry_QueueBeforeVerify(verified, detail, rid, body, event_type, push_event, db_ok) ==
    IF ~db_ok THEN Raised(0, StorageErrorText)
    ELSE IF ~RepoExists(rid) THEN Raised(404, "Repository not found")
    ELSE IF ~verified THEN [Raised(401, detail) EXCEPT !.queue = TRUE]
    ELSE IF event_type # push_event THEN Returned("Event ignored", FALSE)
    ELSE IF ~body.json THEN Raised(0, "JSONDecodeError")
    ELSE IF ~IsMainPush(body) THEN Returned("Push to non-main branch ignored", FALSE)
    ELSE Returned("Webhook processed successfully", TRUE)

\* lines 20-58 / 72-110: the try block of the two handlers
WebhookTry(verified, detail, rid, body, event_type, push_event, db_ok) ==
    IF ~db_ok THEN Raised(0, StorageErrorText)
    ELSE IF ~RepoExists(rid) THEN Raised(404, "Repository not found")
    ELSE IF ~verified THEN Raised(401, detail)
    ELSE IF event_type # push_event THEN Returned("Event ignored", FALSE)
    ELSE IF ~body.json THEN Raised(0, "JSONDecodeError")
    ELSE IF ~IsMainPush(body) THEN Returned("Push to non-main branch ignored", FALSE)
    ELSE Returned("Webhook processed successfully", TRUE)

\* lines 60-62 / 112-114: `except Exception` catches whatever the try block
\* raised, HTTPException included, logs it and raises HTTPException(500).
WebhookExcept(endpoint, result) ==
    IF result.raised
    THEN [status |-> 500, endpoint |-> endpoint, message |-> "Webhook processing failed",
          logged |-> result.message]
    ELSE [status |-> result.status, endpoint |-> endpoint, message |-> result.message,
          logged |-> Null]

\* the response goes out and the queued background task, if any, is kept
WebhookRespond(endpoint, rid, body, result) ==
    /\ result.queue => Len(tasks) < MaxTasks
    /\ response' = WebhookExcept(endpoint, result)
    /\ tasks' = IF result.queue
                THEN Append(tasks, NewTask("webhook", "webhook", rid, body, "wh_get"))
                ELSE tasks
    /\ UNCHANGED <<repositories, issued, scans, findings, fs, sched, now, runner, redaction>>

github_webhook(rid, body, signature, event_type, db_ok) ==
    WebhookRespond("github", rid, body,
        WebhookTry(RepoExists(rid) /\ db_ok
                     /\ _verify_github_signature(body, signature, repositories[rid].webhook_secret),
                   "Invalid signature", rid, body, event_type, "push", db_ok))

gitlab_webhook(rid, body, token, event_type, db_ok) ==
    WebhookRespond("gitlab", rid, body,
        WebhookTry(RepoExists(rid) /\ db_ok
                     /\ _verify_gitlab_token(token, repositories[rid].webhook_secret),
                   "Invalid token", rid, body, event_type, "Push Hook", db_ok))


\* ----------------------------------------------------------------------
\* The repository scan task (services/repository_scanner.py)
\* ----------------------------------------------------------------------
Ended(t) == tasks[t].pc = "done"

\* The scheduler's tasks run on the scheduler thread (scheduler.py 19-24,
\* 46-55), every other task on the server's event loop thread.
SameThread(u, t) == (tasks[u].origin = "scheduler") <=> (tasks[t].origin = "scheduler")

\* The thread was switched out inside the task's synchronous code, between
\* the evaluation of datetime.utcnow() and the queueing of the statement;
\* no other task of that thread runs until it is back.
MidStatement(u) == tasks[u].scan_time # NoTime

\* The task is inside clone_repository or scan_directory: subprocess.run
\* (git_provider.py 64-68, runner.py 134-163) and the file walk are
\* synchronous calls, so the thread's event loop runs nothing else until they
\* return.
Blocking(u) == tasks[u].pc = "cloning"

\* the scan_time argument of the task's update_scan_status call
ScanTime(task) == IF task.scan_time # NoTime THEN task.scan_time ELSE now

\* A task the scheduler created runs on the scheduler thread's event loop,
\* which runs only until _scan_repositories returns.
Runnable(t) ==
    /\ t \in 1..Len(tasks)
    /\ tasks[t].pc \notin {"done", "abandoned"}
    /\ tasks[t].origin = "scheduler" => sched.pc = "sleep"
    /\ ~\E u \in 1..Len(tasks) : u # t /\ SameThread(u, t) /\ (MidStatement(u) \/ Blocking(u))

SetTask(t, new) == tasks' = [tasks EXCEPT ![t] = new]

End(task, outcome) == [task EXCEPT !.pc = "done", !.outcome = outcome]

\* a finally block that leaves the clone where it is
CleanupCloneDir_Skipped(t) == fs

\* the finally block of scan_repository (lines 95-102)
CleanupCloneDir(t) == IF tasks[t].temp_dir THEN fs \ {CloneDir(t)} ELSE fs

\* An exception inside the inner try leaves through the finally block and
\* lands in `except Exception` (line 104) with the message captured.
ToHandler(task, e) == [task EXCEPT !.pc = "h_repo", !.err = e]

\* an extraction that knows the GitHub payload only
_extract_commits_from_webhook_GithubOnly(webhook_data, provider) ==
    IF provider = "github" THEN webhook_data.commits ELSE 0

\* _extract_commits_from_webhook: the payload's commits for either provider
_extract_commits_from_webhook(webhook_data, provider) ==
    IF provider \in {"github", "gitlab"} THEN webhook_data.commits ELSE 0

\* scan_repository_webhook (lines 127-150), up to its call of scan_repository
WebhookScanStart(t, db_ok) ==
    /\ Runnable(t) /\ tasks[t].pc = "wh_get"
    /\ LET task == tasks[t]
           rid == task.repo
       IN  SetTask(t,
             IF ~db_ok THEN End(task, "webhook_error")
             ELSE IF ~RepoExists(rid) THEN End(task, "not_found")
             ELSE IF _extract_commits_from_webhook(task.payload, repositories[rid].provider) > 0
                  THEN [task EXCEPT !.pc = "get"]
                  ELSE End(task, "no_commits"))
    /\ UNCHANGED <<repositories, issued, scans, findings, fs, sched, now, request, response, runner, redaction>>

\* scan_repository, line 33: get_by_id
ScanGetRepository(t, db_ok) ==
    /\ Runnable(t) /\ tasks[t].pc = "get"
    /\ LET task == tasks[t]
       IN  SetTask(t,
             IF ~db_ok THEN ToHandler(task, StorageErrorText)
             ELSE IF ~RepoExists(task.repo) THEN End(task, "not_found")
             ELSE [task EXCEPT !.pc = "mark"])
    /\ UNCHANGED <<repositories, issued, scans, findings, fs, sched, now, request, response, runner, redaction>>

\* lines 41-53: update_scan_status(running), then the ScanJob object is built
ScanMarkRunning(t, db_ok) ==
    /\ Runnable(t) /\ tasks[t].pc = "mark"
    /\ LET task == tasks[t]
       IN  IF db_ok
           THEN /\ repositories' = update_scan_status(task.repo, RUNNING, ScanTime(task), NoCount, Null)
                /\ SetTask(t, [task EXCEPT !.pc = "create", !.has_job = TRUE, !.scan_time = NoTime])
           ELSE /\ repositories' = repositories
                /\ SetTask(t, [ToHandler(task, StorageErrorText) EXCEPT !.scan_time = NoTime])
    /\ UNCHANGED <<issued, scans, findings, fs, sched, now, request, response, runner, redaction>>

\* line 54: scan_repository.create(scan_job); then, without an await,
\* GitProviderService.clone_repository (git_provider.py 54-79: mkdtemp, git
\* clone; on any failure the directory is removed and the exception raised
\* again) and scan_directory (which catches its scanners' exceptions and
\* returns a list of n findings)
ScanCreateJob(t, db_ok, clone_ok, n) ==
    /\ Runnable(t) /\ tasks[t].pc = "create"
    /\ LET task == tasks[t]
       IN  IF ~db_ok
           THEN /\ clone_ok /\ n = 0
                /\ scans' = scans
                /\ fs' = fs
                /\ SetTask(t, ToHandler(task, StorageErrorText))
           ELSE /\ scans' = scan_create(t, task.repo, RUNNING)
                /\ IF clone_ok
                   THEN /\ fs' = fs \cup {CloneDir(t)}
                        /\ SetTask(t, [task EXCEPT !.temp_dir = TRUE, !.found = n,
                                           !.pc = IF n > 0 THEN "save" ELSE "complete"])
                   ELSE /\ n = 0
                        /\ fs' = (fs \cup {CloneDir(t)}) \ {CloneDir(t)}
                        /\ SetTask(t, [ToHandler(task, CloneErrorText) EXCEPT !.clone_failed = TRUE])
    /\ UNCHANGED <<repositories, issued, findings, sched, now, request, response, runner, redaction>>

\* ScanCreateJob in two steps.  CloneBegin: line 54, scan_repository.create,
\* and the call of clone_repository, which blocks the thread in subprocess.run.
CloneBegin(t, db_ok) ==
    /\ Runnable(t) /\ tasks[t].pc = "create"
    /\ LET task == tasks[t]
       IN  IF ~db_ok
           THEN /\ scans' = scans
                /\ SetTask(t, ToHandler(task, StorageErrorText))
           ELSE /\ scans' = scan_create(t, task.repo, RUNNING)
                /\ SetTask(t, [task EXCEPT !.pc = "cloning"])
    /\ UNCHANGED <<repositories, issued, findings, fs, sched, now, request, response, runner, redaction>>

\* CloneEnd: git clone has ended and, if it succeeded, scan_directory has
\* returned its n findings (lines 60-65)
CloneEnd(t, clone_ok, n) ==
    /\ Runnable(t) /\ tasks[t].pc = "cloning"
    /\ LET task == tasks[t]
       IN  IF clone_ok
           THEN /\ fs' = fs \cup {CloneDir(t)}
                /\ SetTask(t, [task EXCEPT !.temp_dir = TRUE, !.found = n,
                                   !.pc = IF n > 0 THEN "save" ELSE "complete"])
           ELSE /\ n = 0
                /\ fs' = (fs \cup {CloneDir(t)}) \ {CloneDir(t)}
                /\ SetTask(t, [ToHandler(task, CloneErrorText) EXCEPT !.clone_failed = TRUE])
    /\ UNCHANGED <<repositories, issued, scans, findings, sched, now, request, response, runner, redaction>>

\* lines 69-71: finding_repository.create for each finding
ScanSaveFinding(t, db_ok) ==
    /\ Runnable(t) /\ tasks[t].pc = "save"
    /\ LET task == tasks[t]
       IN  IF db_ok
           THEN /\ findings' = [findings EXCEPT ![t] = @ + 1]
                /\ fs' = fs
                /\ SetTask(t, [task EXCEPT !.saved = @ + 1,
                                  !.pc = IF task.saved + 1 = task.found THEN "complete" ELSE "save"])
           ELSE /\ findings' = findings
                /\ fs' = CleanupCloneDir(t)
                /\ SetTask(t, ToHandler(task, StorageErrorText))
    /\ UNCHANGED <<repositories, issued, scans, sched, now, request, response, runner, redaction>>

\* lines 74-78: update_completion(COMPLETED, len(findings))
ScanUpdateCompletion(t, db_ok) ==
    /\ Runnable(t) /\ tasks[t].pc = "complete"
    /\ LET task == tasks[t]
       IN  IF db_ok
           THEN /\ scans' = update_completion(t, COMPLETED, task.found)
                /\ fs' = fs
                /\ SetTask(t, [task EXCEPT !.pc = "repo_done"])
           ELSE /\ scans' = scans
                /\ fs' = CleanupCloneDir(t)
                /\ SetTask(t, ToHandler(task, StorageErrorText))
    /\ UNCHANGED <<repositories, issued, findings, sched, now, request, response, runner, redaction>>

\* lines 81-102: update_scan_status(completed, now, len(findings)), then
\* _send_notifications (which swallows its own exceptions and writes nothing)
\* and the return through the finally block
ScanRepositoryCompleted(t, db_ok) ==
    /\ Runnable(t) /\ tasks[t].pc = "repo_done"
    /\ LET task == tasks[t]
       IN  /\ fs' = CleanupCloneDir(t)
           /\ IF db_ok
              THEN /\ repositories' = update_scan_status(task.repo, COMPLETED, ScanTime(task),
                                                          task.found, Null)
                   /\ SetTask(t, [End(task, "completed") EXCEPT !.scan_time = NoTime])
              ELSE /\ repositories' = repositories
                   /\ SetTask(t, [ToHandler(task, StorageErrorText) EXCEPT !.scan_time = NoTime])
    /\ UNCHANGED <<issued, scans, findings, sched, now, request, response, runner, redaction>>

\* lines 104-118: the handler's update_scan_status(error, error=str(e)); if it
\* raises, the inner `except` (line 122) swallows it and the job is not touched
ScanHandlerRepository(t, db_ok) ==
    /\ Runnable(t) /\ tasks[t].pc = "h_repo"
    /\ LET task == tasks[t]
       IN  IF db_ok
           THEN /\ repositories' = update_scan_status(task.repo, ERROR, ScanTime(task), NoCount, task.err)
                /\ SetTask(t, IF task.has_job THEN [task EXCEPT !.pc = "h_job", !.scan_time = NoTime]
                              ELSE [End(task, "error") EXCEPT !.scan_time = NoTime])
           ELSE /\ repositories' = repositories
                /\ SetTask(t, [End(task, "handler_error") EXCEPT !.scan_time = NoTime])
    /\ UNCHANGED <<issued, scans, findings, fs, sched, now, request, response, runner, redaction>>

\* lines 120-121: update_status(scan_job.id, FAILED, str(e))
ScanHandlerJob(t, db_ok) ==
    /\ Runnable(t) /\ tasks[t].pc = "h_job"
    /\ LET task == tasks[t]
       IN  IF db_ok
           THEN /\ scans' = update_status(t, FAILED, task.err)
                /\ SetTask(t, End(task, "error"))
           ELSE /\ scans' = scans
                /\ SetTask(t, End(task, "handler_error"))
    /\ UNCHANGED <<repositories, issued, findings, fs, sched, now, request, response, runner, redaction>>


\* ----------------------------------------------------------------------
\* The archive scan (routers/scans.py)
\* ----------------------------------------------------------------------
\* create_scan: the job row is inserted as pending, the upload is written to
\* a fresh temporary directory and run_scan_job is queued.
CreateScan ==
    /\ Len(tasks) < MaxTasks
    /\ LET t == Len(tasks) + 1
       IN  /\ scans' = scan_create(t, "archive.zip", PENDING)
           /\ fs' = fs \cup {UploadDir(t), UploadFile(t)}
           /\ tasks' = Append(tasks, [NewTask("archive", "upload", UnknownId, NoPayload, "a_run")
                                         EXCEPT !.has_job = TRUE])
    /\ UNCHANGED <<repositories, issued, findings, sched, now, request, response, runner, redaction>>

\* the finally block of run_scan_job (lines 171-179)
CleanupArchive(t) == fs \ {UploadFile(t), ExtractDir(t)}

\* The uploaded file: a sound archive; bytes that zipfile.ZipFile rejects
\* (BadZipFile); a file that cannot be opened (another exception); an archive
\* with a readable directory and a damaged member, whose extract() raises
\* inside the per-member try (lines 145-150) and is skipped with a warning.
ZipKinds == {"ok", "bad_zip", "unreadable", "bad_member"}

\* lines 114-154: update_status(RUNNING), mkdtemp, extraction, scan_directory
ArchiveRun(t, db_ok, zip, n) ==
    /\ Runnable(t) /\ tasks[t].pc = "a_run"
    /\ LET task == tasks[t]
       IN  IF ~db_ok
           THEN /\ zip = "ok" /\ n = 0
                /\ scans' = scans
                /\ fs' = fs
                /\ SetTask(t, [task EXCEPT !.pc = "a_fail", !.err = ScanFailedText(StorageErrorText)])
           ELSE /\ scans' = update_status(t, RUNNING, Null)
                /\ fs' = fs \cup {ExtractDir(t)}
                /\ IF zip \in {"ok", "bad_member"}
                   THEN SetTask(t, [task EXCEPT !.temp_dir = TRUE, !.found = n, !.archive = zip,
                                        !.pc = IF n > 0 THEN "a_save" ELSE "a_complete"])
                   ELSE /\ n = 0
                        /\ SetTask(t, [task EXCEPT !.temp_dir = TRUE, !.pc = "a_fail",
                                         !.archive = zip,
                                         !.err = IF zip = "bad_zip" THEN BadZipText
                                                 ELSE ScanFailedText("unreadable")])
    /\ UNCHANGED <<repositories, issued, findings, sched, now, request, response, runner, redaction>>

\* lines 157-160: finding_repository.create for each finding
ArchiveSaveFinding(t, db_ok) ==
    /\ Runnable(t) /\ tasks[t].pc = "a_save"
    /\ LET task == tasks[t]
       IN  IF db_ok
           THEN /\ findings' = [findings EXCEPT ![t] = @ + 1]
                /\ SetTask(t, [task EXCEPT !.saved = @ + 1,
                                  !.pc = IF task.saved + 1 = task.found THEN "a_complete" ELSE "a_save"])
           ELSE /\ findings' = findings
                /\ SetTask(t, [task EXCEPT !.pc = "a_fail", !.err = ScanFailedText(StorageErrorText)])
    /\ UNCHANGED <<repositories, issued, scans, fs, sched, now, request, response, runner, redaction>>

\* line 163: update_completion(COMPLETED, len(findings)), then the finally block
ArchiveUpdateCompletion(t, db_ok) ==
    /\ Runnable(t) /\ tasks[t].pc = "a_complete"
    /\ LET task == tasks[t]
       IN  IF db_ok
           THEN /\ scans' = update_completion(t, COMPLETED, task.found)
                /\ fs' = CleanupArchive(t)
                /\ SetTask(t, End(task, "completed"))
           ELSE /\ scans' = scans
                /\ fs' = fs
                /\ SetTask(t, [task EXCEPT !.pc = "a_fail", !.err = ScanFailedText(StorageErrorText)])
    /\ UNCHANGED <<repositories, issued, findings, sched, now, request, response, runner, redaction>>

\* lines 165-170: the except clauses' update_status(FAILED, message); an
\* exception raised here leaves run_scan_job after the finally block
ArchiveFail(t, db_ok) ==
    /\ Runnable(t) /\ tasks[t].pc = "a_fail"
    /\ LET task == tasks[t]
       IN  /\ scans' = IF db_ok THEN update_status(t, FAILED, task.err) ELSE scans
           /\ fs' = CleanupArchive(t)
           /\ SetTask(t, End(task, IF db_ok THEN "error" ELSE "raised"))
    /\ UNCHANGED <<repositories, issued, findings, sched, now, request, response, runner, redaction>>

\* ----------------------------------------------------------------------
\* Two threads
\* ----------------------------------------------------------------------
\* scan_repository lines 41-45, 80-87, 112-117: the argument datetime.utcnow()
\* of update_scan_status is evaluated, and the interpreter switches to the
\* other thread before the call has queued its UPDATE on the shared connection.
ReadClock(t) ==
    /\ Runnable(t)
    /\ tasks[t].pc \in {"mark", "repo_done", "h_repo"}
    /\ ~MidStatement(t)
    /\ SetTask(t, [tasks[t] EXCEPT !.scan_time = now])
    /\ UNCHANGED <<repositories, issued, scans, findings, fs, sched, now, request, response, runner, redaction>>

\* ----------------------------------------------------------------------
\* Cancellation and abandonment of a task
\* ----------------------------------------------------------------------
\* The finally block of whichever coroutine the task is suspended in
Finally(t) == IF tasks[t].kind = "archive" THEN CleanupArchive(t) ELSE CleanupCloneDir(t)

\* A request's background task is cancelled at the await it is suspended in:
\* CancelledError is no Exception, so only the finally block runs.
CancelTask(t) ==
    /\ Runnable(t) /\ tasks[t].origin # "scheduler"
    /\ ~MidStatement(t)
    /\ fs' = Finally(t)
    /\ SetTask(t, End(tasks[t], "cancelled"))
    /\ UNCHANGED <<repositories, issued, scans, findings, sched, now, request, response, runner, redaction>>

\* A task left pending on the closed scheduler loop is destroyed by the
\* garbage collector at some point, or never: closing the coroutine raises
\* GeneratorExit at its await, which runs the finally block.
DestroyTask(t) ==
    /\ t \in 1..Len(tasks) /\ tasks[t].pc = "abandoned"
    /\ fs' = Finally(t)
    /\ SetTask(t, End(tasks[t], "destroyed"))
    /\ UNCHANGED <<repositories, issued, scans, findings, sched, now, request, response, runner, redaction>>

\* ----------------------------------------------------------------------
\* The scheduler (services/scheduler.py)
\* ----------------------------------------------------------------------
\* _should_scan_repository, on a row as get_active_repositories returned it
_should_scan_repository(repo) ==
    IF repo.status # ACTIVE THEN FALSE
    ELSE IF repo.last_scan = NoTime THEN TRUE
    ELSE now - repo.last_scan > Cooldown

\* index of the first row of todo the loop starts a scan for, 0 if none
FirstEligible(todo) ==
    IF \E i \in 1..Len(todo) : _should_scan_repository(todo[i])
    THEN CHOOSE i \in 1..Len(todo) :
            /\ _should_scan_repository(todo[i])
            /\ \A j \in 1..(i - 1) : ~_should_scan_repository(todo[j])
    ELSE 0

\* lines 62-73: the for loop runs until it has created a task and sleeps
ScanNext(todo) ==
    LET k == FirstEligible(todo)
    IN  /\ k # 0
        /\ Len(tasks) < MaxTasks
        /\ tasks' = Append(tasks, [NewTask("repo", "scheduler", todo[k].id, NoPayload, "get")
                                      EXCEPT !.trig_inactive = todo[k].status = INACTIVE])
        /\ sched' = [pc |-> "sleep", todo |-> SubSeq(todo, k + 1, Len(todo))]

\* _schedule_repository_scans: a new event loop runs _scan_repositories
SchedulerTick ==
    /\ sched.pc = "idle"
    /\ ScanNext(get_active_repositories)
    /\ UNCHANGED <<repositories, issued, scans, findings, fs, now, request, response, runner, redaction>>

\* _scan_repositories has returned: run_until_complete stops the loop and
\* loop.close() leaves every unfinished task pending for ever
SchedulerClose ==
    /\ sched' = [pc |-> "idle", todo |-> << >>]
    /\ tasks' = [t \in 1..Len(tasks) |->
                    IF tasks[t].origin = "scheduler" /\ tasks[t].pc # "done"
                    THEN [tasks[t] EXCEPT !.pc = "abandoned"] ELSE tasks[t]]

\* asyncio.sleep(5) is over: the for loop goes on to the next repository it
\* starts a scan for, or runs out of rows and returns
SchedulerNext ==
    /\ sched.pc = "sleep"
    /\ ~\E u \in 1..Len(tasks) :
          tasks[u].origin = "scheduler" /\ (MidStatement(u) \/ Blocking(u))
    /\ IF FirstEligible(sched.todo) # 0 THEN ScanNext(sched.todo) ELSE SchedulerClose
    /\ UNCHANGED <<repositories, issued, scans, findings, fs, now, request, response, runner, redaction>>

\* time passes
Tick ==
    /\ now < MaxTime
    /\ now' = now + 1
    /\ UNCHANGED <<repositories, issued, scans, findings, tasks, fs, sched, request, response, runner, redaction>>

\* ----------------------------------------------------------------------
\* Text: a str is the sequence of its characters
\* ----------------------------------------------------------------------
UpperCase == <<"A", "B", "C", "D", "E", "F", "G", "H", "I", "J", "K", "L", "M",
               "N", "O", "P", "Q", "R", "S", "T", "U", "V", "W", "X", "Y", "Z">>
LowerCase == <<"a", "b", "c", "d", "e", "f", "g", "h", "i", "j", "k", "l", "m",
               "n", "o", "p", "q", "r", "s", "t", "u", "v", "w", "x", "y", "z">>
Digits == {"0", "1", "2", "3", "4", "5", "6", "7", "8", "9"}
Range(f) == {f[i] : i \in DOMAIN f}
Letters == Range(UpperCase) \cup Range(LowerCase)

\* str.lower
LowerChar(c) ==
    IF c \in Range(UpperCase)
    THEN LowerCase[CHOOSE i \in DOMAIN UpperCase : UpperCase[i] = c]
    ELSE c
lower(text) == [i \in DOMAIN text |-> LowerChar(text[i])]

\* `part in text`
Contains(text, part) ==
    \E i \in 1..(Len(text) - Len(part) + 1) : SubSeq(text, i, i + Len(part) - 1) = part
\* str.startswith, str.endswith
startswith(text, part) == Len(part) <= Len(text) /\ SubSeq(text, 1, Len(part)) = part
endswith(text, part) ==
    Len(part) <= Len(text) /\ SubSeq(text, Len(text) - Len(part) + 1, Len(text)) = part
\* str.strip, of the blanks a line of the model can hold
RECURSIVE lstrip(_)
lstrip(text) == IF text # <<>> /\ Head(text) = " " THEN lstrip(Tail(text)) ELSE text
RECURSIVE rstrip(_)
rstrip(text) ==
    IF text # <<>> /\ text[Len(text)] = " " THEN rstrip(SubSeq(text, 1, Len(text) - 1)) ELSE text
strip(text) == rstrip(lstrip(text))

\* os.path.splitext(name)[1]: from the last dot on, unless only dots precede it
splitext(name) ==
    LET dots == {i \in DOMAIN name : name[i] = "."}
    IN IF dots = {}
       THEN <<>>
       ELSE LET last == CHOOSE i \in dots : \A j \in dots : j <= i
            IN IF \E j \in 1..(last - 1) : name[j] # "."
               THEN SubSeq(name, last, Len(name))
               ELSE <<>>

\* false_positive_keywords of _calculate_adjusted_confidence
false_positive_keywords ==
    { <<"e", "x", "a", "m", "p", "l", "e">>, <<"t", "e", "s", "t">>, <<"d", "e", "m", "o">>,
      <<"p", "l", "a", "c", "e", "h", "o", "l", "d", "e", "r">>, <<"f", "a", "k", "e">>, <<"d", "u", "m", "m", "y">>,
      <<"s", "a", "m", "p", "l", "e">>, <<"y", "o", "u", "r", "_", "k", "e", "y", "_", "h", "e", "r", "e">>, <<"i", "n", "s", "e", "r", "t", "_", "k", "e", "y", "_", "h", "e", "r", "e">>,
      <<"p", "u", "t", "_", "k", "e", "y", "_", "h", "e", "r", "e">>, <<"r", "e", "p", "l", "a", "c", "e", "_", "w", "i", "t", "h">>, <<"t", "o", "d", "o">>,
      <<"f", "i", "x", "m", "e">>, <<"x", "x", "x">>, <<"y", "y", "y">>,
      <<"z", "z", "z">>, <<"a", "b", "c">>, <<"1", "2", "3">>,
      <<"l", "o", "r", "e", "m">>, <<"i", "p", "s", "u", "m">>, <<"d", "o", "l", "o", "r">> }

\* skip_dirs of _should_skip_directory
skip_dirs ==
    { <<"n", "o", "d", "e", "_", "m", "o", "d", "u", "l", "e", "s">>, <<"_", "_", "p", "y", "c", "a", "c", "h", "e", "_", "_">>,
      <<".", "g", "i", "t">>, <<".", "v", "s", "c", "o", "d", "e">>,
      <<".", "i", "d", "e", "a">>, <<"v", "e", "n", "v">>,
      <<"e", "n", "v">>, <<".", "e", "n", "v">>,
      <<"b", "u", "i", "l", "d">>, <<"d", "i", "s", "t">>,
      <<"t", "a", "r", "g", "e", "t">>, <<".", "p", "y", "t", "e", "s", "t", "_", "c", "a", "c", "h", "e">>,
      <<".", "m", "y", "p", "y", "_", "c", "a", "c", "h", "e">>, <<".", "c", "o", "v", "e", "r", "a", "g", "e">>,
      <<".", "t", "o", "x">>, <<"v", "e", "n", "d", "o", "r">>,
      <<"t", "h", "i", "r", "d", "_", "p", "a", "r", "t", "y">>, <<"e", "x", "t", "e", "r", "n", "a", "l">>,
      <<".", "v", "e", "n", "v">>, <<".", "s", "a", "s", "s", "-", "c", "a", "c", "h", "e">>,
      <<"b", "o", "w", "e", "r", "_", "c", "o", "m", "p", "o", "n", "e", "n", "t", "s">>, <<".", "n", "u", "x", "t">>,
      <<".", "n", "e", "x", "t">> }

\* skip_extensions of _should_scan_file
skip_extensions ==
    { <<".", "7", "z">>, <<".", "a">>, <<".", "a", "v", "i">>, <<".", "b", "i", "n">>,
      <<".", "b", "m", "p">>, <<".", "b", "z", "2">>, <<".", "c", "l", "a", "s", "s">>, <<".", "d", "a", "t">>,
      <<".", "d", "b">>, <<".", "d", "l", "l">>, <<".", "d", "o", "c">>, <<".", "d", "o", "c", "x">>,
      <<".", "d", "y", "l", "i", "b">>, <<".", "e", "o", "t">>, <<".", "e", "x", "e">>, <<".", "f", "l", "a", "c">>,
      <<".", "g", "i", "f">>, <<".", "g", "z">>, <<".", "i", "c", "o">>, <<".", "j", "p", "e", "g">>,
      <<".", "j", "p", "g">>, <<".", "l", "i", "b">>, <<".", "m", "o", "v">>, <<".", "m", "p", "3">>,
      <<".", "m", "p", "4">>, <<".", "o">>, <<".", "o", "b", "j">>, <<".", "o", "g", "g">>,
      <<".", "o", "t", "f">>, <<".", "p", "d", "f">>, <<".", "p", "n", "g">>, <<".", "p", "p", "t">>,
      <<".", "p", "p", "t", "x">>, <<".", "p", "y", "c">>, <<".", "p", "y", "o">>, <<".", "r", "a", "r">>,
      <<".", "s", "o">>, <<".", "s", "q", "l", "i", "t", "e">>, <<".", "s", "q", "l", "i", "t", "e", "3">>, <<".", "s", "v", "g">>,
      <<".", "t", "a", "r">>, <<".", "t", "t", "f">>, <<".", "w", "a", "v">>, <<".", "w", "e", "b", "p">>,
      <<".", "w", "o", "f", "f">>, <<".", "w", "o", "f", "f", "2">>, <<".", "x", "l", "s">>, <<".", "x", "l", "s", "x">>,
      <<".", "x", "z">>, <<".", "z", "i", "p">> }

\* critical_rules of _map_gitleaks_severity
critical_rules ==
    { <<"a", "w", "s", "-", "a", "c", "c", "e", "s", "s", "-", "t", "o", "k", "e", "n">>, <<"a", "w", "s", "-", "s", "e", "c", "r", "e", "t", "-", "k", "e", "y">>,
      <<"s", "t", "r", "i", "p", "e", "-", "a", "c", "c", "e", "s", "s", "-", "t", "o", "k", "e", "n">>, <<"p", "r", "i", "v", "a", "t", "e", "-", "k", "e", "y">>,
      <<"r", "s", "a", "-", "p", "r", "i", "v", "a", "t", "e", "-", "k", "e", "y">>, <<"s", "s", "h", "-", "p", "r", "i", "v", "a", "t", "e", "-", "k", "e", "y">>,
      <<"g", "c", "p", "-", "s", "e", "r", "v", "i", "c", "e", "-", "a", "c", "c", "o", "u", "n", "t">>, <<"a", "z", "u", "r", "e", "-", "s", "t", "o", "r", "a", "g", "e", "-", "a", "c", "c", "o", "u", "n", "t", "-", "k", "e", "y">> }

\* high_rules of _map_gitleaks_severity
high_rules ==
    { <<"g", "i", "t", "h", "u", "b", "-", "p", "a", "t">>, <<"g", "i", "t", "l", "a", "b", "-", "p", "a", "t">>,
      <<"s", "l", "a", "c", "k", "-", "b", "o", "t", "-", "t", "o", "k", "e", "n">>, <<"s", "l", "a", "c", "k", "-", "w", "e", "b", "h", "o", "o", "k">>,
      <<"g", "o", "o", "g", "l", "e", "-", "a", "p", "i", "-", "k", "e", "y">>, <<"s", "e", "n", "d", "g", "r", "i", "d", "-", "a", "p", "i", "-", "t", "o", "k", "e", "n">>,
      <<"t", "w", "i", "l", "i", "o", "-", "a", "p", "i", "-", "k", "e", "y">>, <<"m", "a", "i", "l", "g", "u", "n", "-", "a", "p", "i", "-", "k", "e", "y">>,
      <<"s", "q", "u", "a", "r", "e", "-", "a", "c", "c", "e", "s", "s", "-", "t", "o", "k", "e", "n">> }

\* medium_rules of _map_gitleaks_severity
medium_rules ==
    { <<"j", "w", "t">>, <<"b", "e", "a", "r", "e", "r", "-", "t", "o", "k", "e", "n">>,
      <<"b", "a", "s", "i", "c", "-", "a", "u", "t", "h">>, <<"a", "p", "i", "-", "k", "e", "y", "-", "g", "e", "n", "e", "r", "i", "c">> }

\* default_file_patterns of the shape .*/NAME$
DefaultLockFiles ==
    { <<"p", "a", "c", "k", "a", "g", "e", "-", "l", "o", "c", "k", ".", "j", "s", "o", "n">>, <<"y", "a", "r", "n", ".", "l", "o", "c", "k">>,
      <<"c", "o", "m", "p", "o", "s", "e", "r", ".", "l", "o", "c", "k">>, <<"P", "i", "p", "f", "i", "l", "e", ".", "l", "o", "c", "k">>,
      <<"p", "o", "e", "t", "r", "y", ".", "l", "o", "c", "k">> }

\* default_file_patterns of the shape .*/NAME/.*
DefaultDirectories ==
    { <<"n", "o", "d", "e", "_", "m", "o", "d", "u", "l", "e", "s">>, <<"v", "e", "n", "d", "o", "r">>, <<"b", "u", "i", "l", "d">>,
      <<"d", "i", "s", "t">>, <<"t", "a", "r", "g", "e", "t">> }

\* default_file_patterns of the shape .*SUFFIX$
DefaultSuffixes ==
    { <<".", "z", "i", "p">>, <<".", "t", "a", "r", ".", "g", "z">>, <<".", "j", "a", "r">>,
      <<".", "w", "a", "r">>, <<".", "m", "i", "n", ".", "j", "s">>, <<".", "m", "i", "n", ".", "c", "s", "s">> }

\* ----------------------------------------------------------------------
\* Paths: a path is the sequence of its names, absolute or relative
\* ----------------------------------------------------------------------
Path(absolute, names) == [absolute |-> absolute, names |-> names]
basename(path) == path.names[Len(path.names)]

\* the directory handed to scan_directory (tempfile.mkdtemp gives an
\* absolute path) and the working directory of the server process
ScanRoot == <<<<"t", "m", "p">>, <<"s", "c", "a", "n">>>>
Cwd == <<<<"s", "r", "v">>, <<"a", "p", "p">>>>

\* os.path.join(root, file) for a file of the walked tree
FilePath(file) == Path(TRUE, ScanRoot \o file.dir \o <<file.name>>)

RECURSIVE CommonPrefix(_, _)
CommonPrefix(a, b) ==
    IF a # <<>> /\ b # <<>> /\ Head(a) = Head(b)
    THEN 1 + CommonPrefix(Tail(a), Tail(b))
    ELSE 0
\* os.path.relpath(path): path as seen from the working directory
relpath(path) ==
    LET common == CommonPrefix(Cwd, path.names)
    IN Path(FALSE, [i \in 1..(Len(Cwd) - common) |-> <<".", ".">>]
                       \o SubSeq(path.names, common + 1, Len(path.names)))

\* a name of the path is preceded by a "/" in the path's text
AfterSlash(path, i) == path.absolute \/ i > 1

\* ----------------------------------------------------------------------
\* Regular expressions of the allowlist (rules/allowlist.yaml, key `files`)
\*   "name":    NAME        the literal file name, unanchored
\*   "path":    .*NAME$     any path that ends with the name
\*   "invalid": a text re.compile rejects with re.error
\* ----------------------------------------------------------------------
NamePattern(name) == [name |-> name, kind |-> "name"]
PathPattern(name) == [name |-> name, kind |-> "path"]
InvalidPattern == [name |-> <<"[">>, kind |-> "invalid"]

\* re.match(pattern, path): a match that starts at the first character
re_match(pattern, path) ==
    CASE pattern.kind = "name" ->
            ~path.absolute /\ path.names # <<>> /\ startswith(path.names[1], pattern.name)
      [] pattern.kind = "path" -> endswith(basename(path), pattern.name)
\* re.search(pattern, path): a match anywhere
re_search(pattern, path) ==
    CASE pattern.kind = "name" ->
            \E i \in DOMAIN path.names : Contains(path.names[i], pattern.name)
      [] pattern.kind = "path" -> endswith(basename(path), pattern.name)

\* ----------------------------------------------------------------------
\* ScanRunner (services/runner.py)
\* ----------------------------------------------------------------------
\* a confidence is kept in millionths
One == 1000 * 1000
times(confidence, num, den) == (confidence * num) \div den
RECURSIVE times_n(_, _, _, _)
times_n(confidence, num, den, n) ==
    IF n = 0 THEN confidence ELSE times_n(times(confidence, num, den), num, den, n - 1)

max(a, b) == IF a >= b THEN a ELSE b
min(a, b) == IF a <= b THEN a ELSE b

\* self.min_confidence of __init__, and the cut of _scan_file
DefaultMinConfidence == 7 * (One \div 10)
ScanFileCut == 3 * (One \div 10)
\* the confidence _run_gitleaks gives every finding
GitleaksConfidence == 9 * (One \div 10)
\* 10 MB, the size cap of _should_scan_file
SizeCap == 10 * 1024 * 1024

WordChars == Letters \cup Digits \cup {"_"}
AllOf(text, chars) == text # <<>> /\ \A i \in DOMAIN text : text[i] \in chars
Enclosed(text, open, close) ==
    Len(text) >= Len(open) + Len(close) /\ startswith(text, open) /\ endswith(text, close)

\* default_patterns of _run_regex_scan: the rule of the AWS access key,
\* \bAKIA[0-9A-Z]{16}\b.  A pattern is a literal prefix followed by `count`
\* characters of a class, between two word boundaries.
aws_access_key ==
    [prefix |-> <<"A", "K", "I", "A">>, confidence |-> 95 * (One \div 100),
     rule_id |-> <<"a", "w", "s", "_", "a", "c", "c", "e", "s", "s", "_", "k", "e", "y">>,
     class |-> Digits \cup Range(UpperCase), count |-> 16, severity |-> "critical"]
default_patterns == <<aws_access_key>>

\* \b at position i of the line: exactly one of the characters around it is a word character
IsWord(line, i) == i \in DOMAIN line /\ line[i] \in WordChars
WordBoundary(line, i) == IsWord(line, i - 1) # IsWord(line, i)

\* re.IGNORECASE: a character matches the class when either of its cases is in it
InClass(c, class) ==
    \/ c \in class
    \/ LowerChar(c) \in {LowerChar(d) : d \in class}

\* the pattern matches the line from position i on
MatchesAt(rule, line, i) ==
    LET plen == Len(rule.prefix)
        last == i + plen + rule.count - 1
    IN /\ last <= Len(line)
       /\ WordBoundary(line, i)
       /\ lower(SubSeq(line, i, i + plen - 1)) = lower(rule.prefix)
       /\ \A j \in (i + plen)..last : InClass(line[j], rule.class)
       /\ WordBoundary(line, last + 1)

\* compiled_pattern.finditer(line): the matched texts from left to right
\* (a match lies between two word boundaries, so two matches never overlap)
RECURSIVE finditer_from(_, _, _)
finditer_from(rule, line, i) ==
    IF i > Len(line)
    THEN <<>>
    ELSE IF MatchesAt(rule, line, i)
         THEN LET last == i + Len(rule.prefix) + rule.count - 1
              IN <<SubSeq(line, i, last)>> \o finditer_from(rule, line, last + 1)
         ELSE finditer_from(rule, line, i + 1)
finditer(rule, line) == finditer_from(rule, line, 1)

\* false_positive_patterns of _calculate_adjusted_confidence, one flag a pattern
false_positive_patterns(text) ==
    << AllOf(text, {"x"}),
       AllOf(text, {"*"}),
       AllOf(text, {"0"}),
       AllOf(text, {"1"}),
       AllOf(text, Range(LowerCase)),
       AllOf(text, Range(UpperCase)),
       AllOf(text, Digits),
       Enclosed(text, <<"$", "{">>, <<"}">>),
       Enclosed(text, <<"<">>, <<">">>),
       Enclosed(text, <<"[">>, <<"]">>) >>

\* the value of _calculate_adjusted_confidence before max(0.0, min(1.0, confidence))
RawConfidence(match, rule_id, file_path, line_context, base_confidence) ==
    LET match_lower == strip(lower(match))
        keywords == Cardinality({k \in false_positive_keywords : Contains(match_lower, k)})
        flags == false_positive_patterns(match_lower)
        patterns == Cardinality({i \in DOMAIN flags : flags[i]})
        filename == lower(basename(file_path))
        file_ext == splitext(filename)
        line_lower == lower(line_context)
        c1 == times_n(base_confidence, 1, 10, keywords)
        c2 == times_n(c1, 1, 10, patterns)
        c3 == IF file_ext \in {<<".", "m", "d">>, <<".", "t", "x", "t">>, <<".", "r", "s", "t">>}
              THEN times(c2, 5, 10)
              ELSE IF filename \in {<<"r", "e", "a", "d", "m", "e", ".", "m", "d">>, <<"c", "h", "a", "n", "g", "e", "l", "o", "g", ".", "m", "d">>, <<"c", "o", "n", "t", "r", "i", "b", "u", "t", "i", "n", "g", ".", "m", "d">>}
              THEN times(c2, 3, 10)
              ELSE IF Contains(filename, <<"t", "e", "s", "t">>) \/ Contains(filename, <<"s", "p", "e", "c">>)
              THEN times(c2, 4, 10)
              ELSE IF endswith(filename, <<".", "l", "o", "c", "k">>)
              THEN times(c2, 1, 10)
              ELSE c2
        c4 == IF \E word \in {<<"e", "x", "a", "m", "p", "l", "e">>, <<"d", "e", "m", "o">>, <<"t", "e", "s", "t">>, <<"p", "l", "a", "c", "e", "h", "o", "l", "d", "e", "r">>} :
                    Contains(line_lower, word)
              THEN times(c3, 3, 10)
              ELSE IF \E word \in {<<"c", "o", "n", "s", "t">>, <<"v", "a", "r">>, <<"l", "e", "t">>} : Contains(line_lower, word)
              THEN times(c3, 11, 10)
              ELSE IF startswith(strip(line_lower), <<"#">>)
              THEN times(c3, 5, 10)
              ELSE c3
    IN c4

\* a return without the final max and min
_calculate_adjusted_confidence_Unclamped(match, rule_id, file_path, line_context, base_confidence) ==
    RawConfidence(match, rule_id, file_path, line_context, base_confidence)

\* the rule-specific adjustments (lines 514-533) concern aws_secret_key,
\* jwt_token and the generic_* rules, none of which is a rule of the model
_calculate_adjusted_confidence(match, rule_id, file_path, line_context, base_confidence) ==
    max(0, min(One, RawConfidence(match, rule_id, file_path, line_context, base_confidence)))

\* a walk that prunes nothing
_should_skip_directory_Never(dirname) == FALSE

_should_skip_directory(dirname) ==
    dirname \in skip_dirs \/ startswith(dirname, <<".">>)

\* the size os.path.getsize finds for the name joined to the working
\* directory; OSError when the working directory has no such file
_should_scan_file(filename, cwd_files) ==
    IF splitext(lower(filename)) \in skip_extensions
    THEN FALSE
    ELSE IF \E f \in cwd_files : f.name = filename /\ f.size > SizeCap
    THEN FALSE
    ELSE TRUE

\* the default patterns, then the patterns of the allowlist; a pattern
\* that raises re.error is passed over
_is_file_allowlisted(file_path, allowlist) ==
    \/ basename(file_path) \in DefaultLockFiles /\ AfterSlash(file_path, Len(file_path.names))
    \/ \E i \in 1..(Len(file_path.names) - 1) :
          file_path.names[i] \in DefaultDirectories /\ AfterSlash(file_path, i)
    \/ \E suffix \in DefaultSuffixes : endswith(basename(file_path), suffix)
    \/ \E i \in DOMAIN allowlist.files :
          allowlist.files[i].kind # "invalid" /\ re_match(allowlist.files[i], file_path)

\* a finding of the internal scanner
Finding(file_path, line_number, rule_id, secret, severity, confidence, source) ==
    [secret |-> secret, confidence |-> confidence, rule_id |-> rule_id, severity |-> severity,
     file_path |-> file_path, line_number |-> line_number, source |-> source,
     secret_type |-> rule_id]

\* the findings one rule gives on one line
RECURSIVE RuleFindings(_, _, _, _, _)
RuleFindings(matches, rule, file_path, line_no, line) ==
    IF matches = <<>>
    THEN <<>>
    ELSE LET matched_text == strip(Head(matches))
             adjusted_confidence ==
                 _calculate_adjusted_confidence(matched_text, rule.rule_id, file_path,
                                                line, rule.confidence)
             rest == RuleFindings(Tail(matches), rule, file_path, line_no, line)
         IN IF Len(matched_text) < 3 \/ adjusted_confidence < ScanFileCut
            THEN rest
            ELSE <<Finding(relpath(file_path), line_no, rule.rule_id, matched_text,
                           rule.severity, adjusted_confidence, "regex")>> \o rest

RECURSIVE LineFindings(_, _, _, _)
LineFindings(patterns, file_path, line_no, line) ==
    IF patterns = <<>>
    THEN <<>>
    ELSE RuleFindings(finditer(Head(patterns), line), Head(patterns), file_path, line_no, line)
            \o LineFindings(Tail(patterns), file_path, line_no, line)

RECURSIVE _scan_file_from(_, _, _, _)
_scan_file_from(file_path, lines, line_no, patterns) ==
    IF line_no > Len(lines)
    THEN <<>>
    ELSE LineFindings(patterns, file_path, line_no, lines[line_no])
            \o _scan_file_from(file_path, lines, line_no + 1, patterns)
_scan_file(file_path, lines, patterns) == _scan_file_from(file_path, lines, 1, patterns)

\* {**default_patterns, **self.patterns}
all_patterns(patterns) == default_patterns \o patterns

\* rules/patterns.yaml as _load_patterns finds it: absent, a mapping of rule
\* ids to rules, a text yaml.safe_load cannot parse, or a non-empty YAML
\* sequence of rules
RuleFile(kind, rules) == [kind |-> kind, rules |-> rules]

\* _load_patterns: {} when the file is absent or safe_load raises, else
\* whatever safe_load returns (`or {}` replaces only a falsy value)
_load_patterns(rule_file) ==
    IF rule_file.kind \in {"absent", "unparsable"}
    THEN [rules |-> <<>>, mapping |-> TRUE]
    ELSE [rules |-> rule_file.rules, mapping |-> rule_file.kind = "mapping"]

\* the merge raises TypeError when self.patterns is not a mapping
MergeRaises(patterns) == ~patterns.mapping

\* os.walk with the pruning of dirs[:]: the directories the walk enters
\* on its way to the file, the root included
Visited(file) ==
    {SubSeq(file.dir, 1, k) :
        k \in {n \in 0..Len(file.dir) : \A i \in 1..n : ~_should_skip_directory(file.dir[i])}}

\* the walked file passes the loop of _run_regex_scan down to _scan_file
Scanned(file, cwd_files, allowlist) ==
    /\ file.dir \in Visited(file)
    /\ _should_scan_file(file.name, cwd_files)
    /\ ~_is_file_allowlisted(FilePath(file), allowlist)

_run_regex_scan(file, cwd_files, allowlist, patterns) ==
    IF Scanned(file, cwd_files, allowlist)
    THEN _scan_file(FilePath(file), file.lines, all_patterns(patterns))
    ELSE <<>>

_map_gitleaks_severity(rule_id) ==
    LET rule_id_lower == lower(rule_id)
    IN IF \E rule \in critical_rules : Contains(rule_id_lower, rule) THEN "critical"
       ELSE IF \E rule \in high_rules : Contains(rule_id_lower, rule) THEN "high"
       ELSE IF \E rule \in medium_rules : Contains(rule_id_lower, rule) THEN "medium"
       ELSE "low"

\* the report of `gitleaks detect --source directory --no-git`; no finding
\* when the program is not installed
RECURSIVE GitleaksFindings(_, _)
GitleaksFindings(items, allowlist) ==
    IF items = <<>>
    THEN <<>>
    ELSE LET item == Head(items)
             rest == GitleaksFindings(Tail(items), allowlist)
         IN IF _is_file_allowlisted(item.File, allowlist)
            THEN rest
            ELSE <<[secret |-> item.Secret, confidence |-> GitleaksConfidence,
                    rule_id |-> item.RuleID, severity |-> _map_gitleaks_severity(item.RuleID),
                    file_path |-> item.File, line_number |-> item.StartLine, source |-> "gitleaks",
                    secret_type |-> item.RuleID]>> \o rest
\* a _run_gitleaks that reads the report whatever became of the detect run
_run_gitleaks_IgnoringFault(gitleaks, allowlist) ==
    IF gitleaks.installed THEN GitleaksFindings(gitleaks.items, allowlist) ELSE <<>>

\* `installed` is false when the program cannot be spawned
\* (FileNotFoundError) or `gitleaks --version` fails; `fault` tells how the
\* detect run ends: "none", "timeout" (TimeoutExpired), "crash" (the process
\* dies and leaves no report on stdout) or "garbage" (JSONDecodeError)
_run_gitleaks(gitleaks, allowlist) ==
    IF gitleaks.installed /\ gitleaks.fault = "none"
    THEN GitleaksFindings(gitleaks.items, allowlist)
    ELSE <<>>

\* is_in_allowlist of services/redact.py for an allowlist that lists file
\* patterns only: "raise" when re.search meets an invalid pattern before a
\* pattern that matches
is_in_allowlist(finding, allowlist) ==
    LET decisive == {i \in DOMAIN allowlist.files :
                        \/ allowlist.files[i].kind = "invalid"
                        \/ re_search(allowlist.files[i], finding.file_path)}
    IN IF allowlist.files = <<>> \/ decisive = {}
       THEN "false"
       ELSE LET first == CHOOSE i \in decisive : \A j \in decisive : i <= j
            IN IF allowlist.files[first].kind = "invalid" THEN "raise" ELSE "true"

\* the filter loop of scan_directory
RECURSIVE filtered_findings(_, _, _)
filtered_findings(found, allowlist, min_confidence) ==
    IF found = <<>>
    THEN <<>>
    ELSE LET finding == Head(found)
             rest == filtered_findings(Tail(found), allowlist, min_confidence)
             listed == is_in_allowlist(finding, allowlist)
         IN IF listed = "raise"
            THEN <<finding>> \o rest
            ELSE IF listed = "true"
            THEN rest
            ELSE IF finding.confidence < min_confidence
            THEN rest
            ELSE <<finding>> \o rest

\* ----------------------------------------------------------------------
\* redact_secret (services/redact.py)
\* ----------------------------------------------------------------------
MaxSecretLen == 10   \* characters of the longest secret

Stars(n) == [i \in 1..n |-> "*"]

\* a limit that leaves a secret of 8 characters in sight
redact_secret_StrictLimit(secret) ==
    IF Len(secret) < 8
    THEN Stars(Len(secret))
    ELSE SubSeq(secret, 1, 4) \o Stars(Len(secret) - 8)
            \o SubSeq(secret, Len(secret) - 3, Len(secret))

\* a mask one character short
redact_secret_ShortMask(secret) ==
    IF Len(secret) <= 8
    THEN Stars(Len(secret))
    ELSE SubSeq(secret, 1, 4) \o Stars(Len(secret) - 9)
            \o SubSeq(secret, Len(secret) - 3, Len(secret))

redact_secret(secret) ==
    IF Len(secret) <= 8
    THEN Stars(Len(secret))
    ELSE SubSeq(secret, 1, 4) \o Stars(Len(secret) - 8)
            \o SubSeq(secret, Len(secret) - 3, Len(secret))

\* the characters of a secret: two of its own and the masking character
SecretChars == {"A", "k", "*"}
SecretTexts == UNION {[1..n -> SecretChars] : n \in 0..MaxSecretLen}

OutsideRedaction ==
    UNCHANGED <<repositories, issued, scans, findings, tasks, fs, sched, now, request, response,
                runner>>

\* finding_dict["secret"] = redact_secret(finding.secret)
RedactSecret ==
    /\ redaction.pc = "stored"
    /\ redaction' = [redaction EXCEPT !.pc = "shown", !.shown = redact_secret(redaction.secret)]
    /\ OutsideRedaction

\* the text shown goes through redact_secret once more
RedactShown ==
    /\ redaction.pc = "shown"
    /\ redaction' = [redaction EXCEPT !.pc = "again", !.again = redact_secret(redaction.shown)]
    /\ OutsideRedaction

\* ---- the inputs of one call ----
Key_Sequential == <<"A", "K", "I", "A", "1", "2", "3", "4", "5", "6", "7", "8", "9", "0", "A", "B", "C", "D", "E", "F">>
Key_Plain == <<"A", "K", "I", "A", "9", "8", "7", "6", "5", "4", "3", "2", "1", "0", "Q", "W", "E", "R", "T", "Y">>
FixtureLine == <<"A", "W", "S", "_", "K", "E", "Y", "=">> \o Key_Sequential
Lines ==
    { FixtureLine,
      <<"A", "W", "S", "_", "K", "E", "Y", "=">> \o Key_Plain,
      <<"c", "o", "n", "s", "t", " ", "k", "e", "y", " ", "=", " ">> \o Key_Plain,
      <<"#", " ">> \o Key_Plain,
      <<"h", "e", "l", "l", "o", " ", "w", "o", "r", "l", "d">> }

FileNames == {<<"c", "o", "n", "f", "i", "g", ".", "e", "n", "v">>, <<"n", "o", "t", "e", "s", ".", "t", "x", "t">>, <<"k", "e", "y", "s", "_", "t", "e", "s", "t", ".", "p", "y">>, <<"l", "o", "g", "o", ".", "p", "n", "g">>}
Directories ==
    { <<>>, <<<<"s", "r", "c">>>>, <<<<"n", "o", "d", "e", "_", "m", "o", "d", "u", "l", "e", "s">>>>, <<<<".", "c", "a", "c", "h", "e">>>>, <<<<"s", "r", "c">>, <<"n", "o", "d", "e", "_", "m", "o", "d", "u", "l", "e", "s">>>> }
SmallSize == SizeCap \div 1024
LargeSize == SizeCap + 1

\* the scanned directory holds one file
Files ==
    [dir : Directories, name : FileNames, size : {SmallSize, LargeSize}, lines : {<<l>> : l \in Lines}]

\* the files of the working directory that bear the name of the scanned file
CwdFiles(file) ==
    { {} } \cup { {[name |-> file.name, size |-> size]} : size \in {SmallSize, LargeSize} }

\* rules/allowlist.yaml
NoAllowlist == [files |-> <<>>]
Allowlists(file) ==
    { NoAllowlist,
      [files |-> <<NamePattern(file.name)>>],
      [files |-> <<PathPattern(file.name)>>],
      [files |-> <<InvalidPattern>>],
      [files |-> <<InvalidPattern, NamePattern(file.name)>>] }

\* rules/patterns.yaml: no rule, or one rule of the company's own with the
\* shape of the AWS rule and a confidence of its choice
CorpKey == <<"c", "o", "r", "p", "_", "k", "e", "y">>
CustomConfidences == {0 - One \div 2, One \div 2, One + One \div 2}
CustomRules ==
    { <<>> } \cup
    { <<[aws_access_key EXCEPT !.rule_id = CorpKey, !.severity = "high",
                               !.confidence = c]>> : c \in CustomConfidences }

MinConfidences == {One \div 2, DefaultMinConfidence}

\* what gitleaks can report on the directory: it is not installed, it
\* finds nothing, or it reports the keys of the file
GitleaksItems(file) ==
    LET keys == finditer(aws_access_key, file.lines[1])
    IN [i \in DOMAIN keys |->
          [File |-> FilePath(file), Secret |-> keys[i],
           RuleID |-> <<"a", "w", "s", "-", "a", "c", "c", "e", "s", "s", "-", "t", "o", "k", "e", "n">>,
           StartLine |-> 1]]
GitleaksReports(file) ==
    { [items |-> <<>>, installed |-> FALSE, fault |-> "none"],
      [items |-> <<>>, installed |-> TRUE, fault |-> "none"],
      [items |-> GitleaksItems(file), installed |-> TRUE, fault |-> "none"] }

\* the detect run fails over the report it would have given
GitleaksFaults == {"timeout", "crash", "garbage"}
FailedGitleaksReports(file) ==
    { [items |-> GitleaksItems(file), installed |-> TRUE, fault |-> fault] :
         fault \in GitleaksFaults }

\* the rule files of a deployment that keeps its rule file in order, and
\* the ones that hold no rule mapping
RuleFiles ==
    {RuleFile("absent", <<>>)} \cup {RuleFile("mapping", rules) : rules \in CustomRules \ {<<>>}}
BrokenRuleFiles ==
    {RuleFile(kind, rules) : kind \in {"unparsable", "sequence"},
                             rules \in {r \in CustomRules : r # <<>> /\ r[1].confidence < One}}

\* ScanRunner.__init__ and the directory handed to scan_directory
RunnerInput(file, cwd_files, allowlist, rule_file, min_confidence, gitleaks) ==
    [findings |-> <<>>, pc |-> "start", result |-> <<>>, file |-> file,
     patterns |-> _load_patterns(rule_file), cwd_files |-> cwd_files, allowlist |-> allowlist,
     rule_file |-> rule_file, gitleaks |-> gitleaks, min_confidence |-> min_confidence,
     visited |-> {}, opened |-> {}, trace |-> <<>>]

\* ---- the operations a scan performs on a file and on a finding, in order ----
Event(op, source, file_path, line_number, rule_id, secret) ==
    [secret |-> secret, rule_id |-> rule_id, file_path |-> file_path, line_number |-> line_number,
     source |-> source, op |-> op]

\* _is_file_allowlisted is called on a file
FileEvent(source, file_path) == Event("file_allowlist", source, file_path, 0, <<>>, <<>>)

\* a finding gets its confidence ("score"), is passed to is_in_allowlist
\* ("finding_allowlist"), is handed to finding_repository.create ("persist")
FindingEvents(op, found) ==
    [i \in DOMAIN found |->
        Event(op, found[i].source, found[i].file_path, found[i].line_number,
              found[i].rule_id, found[i].secret)]

\* _run_gitleaks, the loop over the report: the allowlist test of the item's
\* file, then the Finding with confidence 0.9
RECURSIVE GitleaksEvents(_, _)
GitleaksEvents(items, allowlist) ==
    IF items = <<>>
    THEN <<>>
    ELSE <<FileEvent("gitleaks", Head(items).File)>>
            \o FindingEvents("score", GitleaksFindings(<<Head(items)>>, allowlist))
            \o GitleaksEvents(Tail(items), allowlist)

\* _run_regex_scan, the loop over the files: the allowlist test of the file,
\* then _scan_file, which scores each match
RegexEvents(file, cwd_files, allowlist, patterns) ==
    IF file.dir \in Visited(file) /\ _should_scan_file(file.name, cwd_files)
    THEN <<FileEvent("regex", FilePath(file))>>
            \o FindingEvents("score", _run_regex_scan(file, cwd_files, allowlist, patterns))
    ELSE <<>>

\* a filter loop that tests the confidence only
FilterEvents_ThresholdOnly(found) == <<>>

\* scan_directory, the filter loop: is_in_allowlist on every finding collected
FilterEvents(found) == FindingEvents("finding_allowlist", found)

\* a scan_directory whose internal scan takes the collected findings with it
\* when it raises
AfterRegexScan_Propagated(found, raised, regex_findings) ==
    IF raised THEN <<>> ELSE found \o regex_findings

\* scan_directory lines 98-104: findings.extend(regex_findings) inside a try
\* whose except clause only logs
AfterRegexScan(found, raised, regex_findings) ==
    IF raised THEN found ELSE found \o regex_findings

\* scan_directory as a function of what it reads
scan_directory(file, cwd_files, allowlist, patterns, min_confidence, gitleaks) ==
    filtered_findings(
        AfterRegexScan(_run_gitleaks(gitleaks, allowlist), MergeRaises(patterns),
                       _run_regex_scan(file, cwd_files, allowlist, patterns.rules)),
        allowlist, min_confidence)

\* ---- the steps of scan_directory ----
OutsideRunner ==
    UNCHANGED <<repositories, issued, scans, findings, tasks, fs, sched, now, request, response,
                redaction>>

\* findings.extend(await self._run_gitleaks(directory))
RunGitleaks ==
    /\ runner.pc = "start"
    /\ runner' = [runner EXCEPT
                     !.pc = "gitleaks",
                     !.findings = _run_gitleaks(runner.gitleaks, runner.allowlist),
                     !.trace = IF runner.gitleaks.installed /\ runner.gitleaks.fault = "none"
                               THEN GitleaksEvents(runner.gitleaks.items, runner.allowlist)
                               ELSE <<>>]
    /\ OutsideRunner

\* findings.extend(await self._run_regex_scan(directory))
RunRegexScan ==
    /\ runner.pc = "gitleaks"
    /\ LET file == runner.file
           raised == MergeRaises(runner.patterns)
           scanned == ~raised /\ Scanned(file, runner.cwd_files, runner.allowlist)
       IN runner' = [runner EXCEPT
                        !.pc = "regex",
                        !.visited = IF raised THEN {} ELSE Visited(file),
                        !.opened = IF scanned THEN {file} ELSE {},
                        !.findings = AfterRegexScan(@, raised,
                                         _run_regex_scan(file, runner.cwd_files,
                                                         runner.allowlist, runner.patterns.rules)),
                        !.trace = IF raised THEN @
                                  ELSE @ \o RegexEvents(file, runner.cwd_files, runner.allowlist,
                                                        runner.patterns.rules)]
    /\ OutsideRunner

\* the filter loop and the return
FilterFindings ==
    /\ runner.pc = "regex"
    /\ runner' = [runner EXCEPT
                     !.pc = "done",
                     !.result = filtered_findings(runner.findings, runner.allowlist,
                                                  runner.min_confidence),
                     !.trace = @ \o FilterEvents(runner.findings)]
    /\ OutsideRunner

\* the caller's loop over the returned findings: finding.job_id = job id,
\* finding_repository.create(finding)
SaveFindings ==
    /\ runner.pc = "done"
    /\ runner' = [runner EXCEPT
                     !.pc = "saved",
                     !.trace = @ \o FindingEvents("persist", runner.result)]
    /\ OutsideRunner

\* ----------------------------------------------------------------------
\* Specifications
\* ----------------------------------------------------------------------
TaskStep(t) ==
    \/ \E db_ok \in BOOLEAN : WebhookScanStart(t, db_ok)
    \/ \E db_ok \in BOOLEAN : ScanGetRepository(t, db_ok)
    \/ \E db_ok \in BOOLEAN : ScanMarkRunning(t, db_ok)
    \/ \E db_ok \in BOOLEAN, clone_ok \in BOOLEAN, n \in 0..MaxFindings :
          ScanCreateJob(t, db_ok, clone_ok, n)
    \/ \E db_ok \in BOOLEAN : ScanSaveFinding(t, db_ok)
    \/ \E db_ok \in BOOLEAN : ScanUpdateCompletion(t, db_ok)
    \/ \E db_ok \in BOOLEAN : ScanRepositoryCompleted(t, db_ok)
    \/ \E db_ok \in BOOLEAN : ScanHandlerRepository(t, db_ok)
    \/ \E db_ok \in BOOLEAN : ScanHandlerJob(t, db_ok)
    \/ \E db_ok \in BOOLEAN, zip \in ZipKinds, n \in 0..MaxFindings : ArchiveRun(t, db_ok, zip, n)
    \/ \E db_ok \in BOOLEAN : ArchiveSaveFinding(t, db_ok)
    \/ \E db_ok \in BOOLEAN : ArchiveUpdateCompletion(t, db_ok)
    \/ \E db_ok \in BOOLEAN : ArchiveFail(t, db_ok)
    \/ CancelTask(t)
    \/ DestroyTask(t)

Lifecycle ==
    \/ \E rid \in RepoIds, provider \in Providers : CreateRepository(rid, provider)
    \/ \E rid \in RepoIds, status \in {ACTIVE, INACTIVE} : UpdateRepository(rid, status)
    \/ \E rid \in RepoIds : DeleteRepository(rid)

Management ==
    \/ Lifecycle
    \/ \E rid \in RepoIds : TriggerManualScan(rid)

\* The provider's delivery of a push to main, received and handled at once
PushBodies == {[ref |-> RefMain, json |-> TRUE, commits |-> c] : c \in 0..MaxCommits}

Deliveries ==
    \/ \E rid \in RepoIds, body \in PushBodies :
          /\ RepoExists(rid) /\ repositories[rid].provider = "github"
          /\ github_webhook(rid, body, GithubSignature(GeneratedSecret(rid), body), "push", TRUE)
          /\ UNCHANGED request
    \/ \E rid \in RepoIds, body \in PushBodies :
          /\ RepoExists(rid) /\ repositories[rid].provider = "gitlab"
          /\ gitlab_webhook(rid, body, GeneratedSecret(rid), "Push Hook", TRUE)
          /\ UNCHANGED request

Next ==
    \/ Management
    \/ Deliveries
    \/ CreateScan
    \/ SchedulerTick
    \/ SchedulerNext
    \/ Tick
    \/ \E t \in TaskIds : TaskStep(t)

Spec == Init /\ [][Next]_vars

\* Repository scans on the two threads, with the thread switches between a
\* clock reading and the write that carries it.  (Spec takes each reading and
\* its write as one step.)
RepoTaskStep(t) ==
    \/ \E db_ok \in BOOLEAN : ScanGetRepository(t, db_ok)
    \/ \E db_ok \in BOOLEAN : ScanMarkRunning(t, db_ok)
    \/ \E db_ok \in BOOLEAN, clone_ok \in BOOLEAN, n \in 0..MaxFindings :
          ScanCreateJob(t, db_ok, clone_ok, n)
    \/ \E db_ok \in BOOLEAN : ScanSaveFinding(t, db_ok)
    \/ \E db_ok \in BOOLEAN : ScanUpdateCompletion(t, db_ok)
    \/ \E db_ok \in BOOLEAN : ScanRepositoryCompleted(t, db_ok)
    \/ \E db_ok \in BOOLEAN : ScanHandlerRepository(t, db_ok)
    \/ \E db_ok \in BOOLEAN : ScanHandlerJob(t, db_ok)
    \/ ReadClock(t)

NextThreads ==
    \/ \E rid \in RepoIds, provider \in Providers : CreateRepository(rid, provider)
    \/ \E rid \in RepoIds : TriggerManualScan(rid)
    \/ SchedulerTick
    \/ SchedulerNext
    \/ Tick
    \/ \E t \in TaskIds : RepoTaskStep(t)

SpecThreads == Init /\ [][NextThreads]_vars

\* Webhook requests of every shape, against the handlers and the repository
\* lifecycle alone
Mutated(body) == [body EXCEPT !.commits = (@ + 1) % (MaxCommits + 1)]

Signatures(body) ==
    {NoSignature, EmptySignature} \cup
    {Signed(prefix, secret, msg) :
        prefix \in {"sha256=", "sha1="}, secret \in Secrets, msg \in {body, Mutated(body)}}

Tokens == Secrets \cup {None, EmptySecret}

Events == {"push", "Push Hook", "ping", Null}

\* POST /webhooks/github/{id} and POST /webhooks/gitlab/{id} arrive
Arrive(req) ==
    /\ ~request.pending
    /\ request' = req
    /\ response' = NoResponse
    /\ UNCHANGED <<repositories, issued, scans, findings, tasks, fs, sched, now, runner, redaction>>

PostGithubWebhook ==
    \E rid \in RequestIds, body \in Bodies, event_type \in Events :
       \E signature \in Signatures(body) :
          Arrive([body |-> body, id |-> rid, pending |-> TRUE, endpoint |-> "github",
                  signature |-> signature, token |-> None, event |-> event_type])

PostGitlabWebhook ==
    \E rid \in RequestIds, body \in Bodies, event_type \in Events, token \in Tokens :
       Arrive([body |-> body, id |-> rid, pending |-> TRUE, endpoint |-> "gitlab",
               signature |-> NoSignature, token |-> token, event |-> event_type])

\* the handler of the request's endpoint runs and answers it
HandleWebhook ==
    /\ request.pending
    /\ request' = NoRequest
    /\ \E db_ok \in BOOLEAN :
          IF request.endpoint = "github"
          THEN github_webhook(request.id, request.body, request.signature, request.event, db_ok)
          ELSE gitlab_webhook(request.id, request.body, request.token, request.event, db_ok)

NextWebhook ==
    \/ Lifecycle
    \/ PostGithubWebhook
    \/ PostGitlabWebhook
    \/ HandleWebhook

SpecWebhook == Init /\ [][NextWebhook]_vars

\* The database file outlives the process (db.py creates the tables only IF
\* NOT EXISTS), so the service can start on a repositories table that already
\* holds a row; the column webhook_secret is a nullable TEXT and
\* Repository.webhook_secret is Optional[str], and the row here has no secret.
\* (Rows written by create_repository carry a generated secret: SpecWebhook.)
InitStored ==
    /\ repositories = ("r1" :> [status |-> ACTIVE, findings_count |-> NoCount, last_scan |-> NoTime,
                                last_scan_status |-> Null, provider |-> "gitlab",
                                webhook_secret |-> None])
    /\ issued = DOMAIN repositories
    /\ scans = << >>
    /\ findings = [j \in TaskIds |-> 0]
    /\ tasks = << >>
    /\ fs = {}
    /\ sched = [pc |-> "idle", todo |-> << >>]
    /\ now = 0
    /\ request = NoRequest
    /\ response = NoResponse
    /\ runner = NoRunner
    /\ redaction = NoRedaction

NextStored ==
    \/ \E rid \in RepoIds, status \in {ACTIVE, INACTIVE} : UpdateRepository(rid, status)
    \/ \E rid \in RepoIds : DeleteRepository(rid)
    \/ PostGitlabWebhook
    \/ HandleWebhook

SpecStored == InitStored /\ [][NextStored]_vars

\* The scheduler over a table that holds two repositories when the service
\* starts, with the clone as a step of its own
StoredIds == {"r1", "r2"}

InitScheduler ==
    /\ \E last_scan \in [StoredIds -> {NoTime, 0}] :
          repositories = [rid \in StoredIds |->
                             [status |-> ACTIVE,
                              findings_count |-> IF last_scan[rid] = NoTime THEN NoCount ELSE 0,
                              last_scan |-> last_scan[rid],
                              last_scan_status |-> IF last_scan[rid] = NoTime THEN Null ELSE COMPLETED,
                              provider |-> "github", webhook_secret |-> GeneratedSecret(rid)]]
    /\ issued = StoredIds
    /\ scans = << >>
    /\ findings = [j \in TaskIds |-> 0]
    /\ tasks = << >>
    /\ fs = {}
    /\ sched = [pc |-> "idle", todo |-> << >>]
    /\ now = 0
    /\ request = NoRequest
    /\ response = NoResponse
    /\ runner = NoRunner
    /\ redaction = NoRedaction

\* the steps of scan_repository
ScanStep(t) ==
    \/ \E db_ok \in BOOLEAN : ScanGetRepository(t, db_ok)
    \/ \E db_ok \in BOOLEAN : ScanMarkRunning(t, db_ok)
    \/ \E db_ok \in BOOLEAN : CloneBegin(t, db_ok)
    \/ \E clone_ok \in BOOLEAN, n \in 0..MaxFindings : CloneEnd(t, clone_ok, n)
    \/ \E db_ok \in BOOLEAN : ScanSaveFinding(t, db_ok)
    \/ \E db_ok \in BOOLEAN : ScanUpdateCompletion(t, db_ok)
    \/ \E db_ok \in BOOLEAN : ScanRepositoryCompleted(t, db_ok)
    \/ \E db_ok \in BOOLEAN : ScanHandlerRepository(t, db_ok)
    \/ \E db_ok \in BOOLEAN : ScanHandlerJob(t, db_ok)

NextScheduler ==
    \/ \E rid \in StoredIds, status \in {ACTIVE, INACTIVE} : UpdateRepository(rid, status)
    \/ SchedulerTick
    \/ SchedulerNext
    \/ Tick
    \/ \E t \in TaskIds : ScanStep(t)

SpecScheduler == InitScheduler /\ [][NextScheduler]_vars

\* Both event loops run every task that is ready (asyncio runs its ready
\* callbacks in turn), and the scheduler's coroutine goes on when its sleep
\* is over; requests and the clock are under no obligation.
SpecSchedulerLive ==
    /\ SpecScheduler
    /\ WF_vars(SchedulerNext)
    /\ \A t \in TaskIds : WF_vars(ScanStep(t))

\* one call of scan_directory, on every input of the model
InitRunner ==
    /\ repositories = << >>
    /\ issued = {}
    /\ scans = << >>
    /\ findings = [j \in TaskIds |-> 0]
    /\ tasks = << >>
    /\ fs = {}
    /\ sched = [pc |-> "idle", todo |-> << >>]
    /\ now = 0
    /\ request = NoRequest
    /\ response = NoResponse
    /\ \E file \in Files :
          \E cwd_files \in CwdFiles(file), allowlist \in Allowlists(file),
             rule_file \in RuleFiles, min_confidence \in MinConfidences,
             gitleaks \in GitleaksReports(file) :
                runner = RunnerInput(file, cwd_files, allowlist, rule_file,
                                     min_confidence, gitleaks)
    /\ redaction = NoRedaction

NextRunner ==
    \/ RunGitleaks
    \/ RunRegexScan
    \/ FilterFindings
    \/ SaveFindings

SpecRunner == InitRunner /\ [][NextRunner]_vars

\* one call of scan_directory with a rule file that may hold no rule mapping
\* and a gitleaks run that may fail
InitFaults ==
    /\ repositories = << >>
    /\ issued = {}
    /\ scans = << >>
    /\ findings = [j \in TaskIds |-> 0]
    /\ tasks = << >>
    /\ fs = {}
    /\ sched = [pc |-> "idle", todo |-> << >>]
    /\ now = 0
    /\ request = NoRequest
    /\ response = NoResponse
    /\ \E file \in Files :
          \E allowlist \in {NoAllowlist, [files |-> <<NamePattern(file.name)>>]},
             rule_file \in RuleFiles \cup BrokenRuleFiles,
             min_confidence \in MinConfidences,
             gitleaks \in GitleaksReports(file) \cup FailedGitleaksReports(file) :
                runner = RunnerInput(file, {}, allowlist, rule_file, min_confidence, gitleaks)
    /\ redaction = NoRedaction

SpecFaults == InitFaults /\ [][NextRunner]_vars

\* redact_secret on every secret of SecretTexts
InitRedact ==
    /\ repositories = << >>
    /\ issued = {}
    /\ scans = << >>
    /\ findings = [j \in TaskIds |-> 0]
    /\ tasks = << >>
    /\ fs = {}
    /\ sched = [pc |-> "idle", todo |-> << >>]
    /\ now = 0
    /\ request = NoRequest
    /\ response = NoResponse
    /\ runner = NoRunner
    /\ \E secret \in SecretTexts :
          redaction = [secret |-> secret, pc |-> "stored", shown |-> <<>>, again |-> <<>>]

NextRedact ==
    \/ RedactSecret
    \/ RedactShown

SpecRedact == InitRedact /\ [][NextRedact]_vars

\* ----------------------------------------------------------------------
\* Properties of the webhook handlers
\* ----------------------------------------------------------------------
\* The step in which the handler answers the request in flight
Handled == request.pending /\ ~request'.pending

\* The handler's storage call did not fail
StorageAnswered == response'.logged # StorageErrorText

\* The request in flight addresses a registered repository and carries the
\* signature (GitHub) or token (GitLab) that repository's secret demands
Authentic ==
    /\ RepoExists(request.id)
    /\ IF request.endpoint = "github"
       THEN request.signature =
               Signed("sha256=", repositories[request.id].webhook_secret, request.body)
       ELSE request.token = repositories[request.id].webhook_secret

\* The request in flight is a push event whose ref ends in /main or /master
PushToMainOrMaster ==
    /\ request.event = (IF request.endpoint = "github" THEN "push" ELSE "Push Hook")
    /\ request.body.json
    /\ Len(request.body.ref) >= 2
    /\ request.body.ref[Len(request.body.ref)] \in {"main", "master"}

\* The tables, the files and the task queue are as they were
NothingWritten == UNCHANGED <<repositories, issued, scans, findings, tasks, fs>>

\* C3: a webhook request for an unknown repository id is answered with status
\* 404, and one whose signature (GitHub) or token (GitLab) fails verification
\* is answered with status 401.
C3_RejectionStatus ==
    [][(Handled /\ StorageAnswered) =>
          /\ ~RepoExists(request.id) => response'.status = 404
          /\ (RepoExists(request.id) /\ ~Authentic) => response'.status = 401]_vars

\* C4: a webhook request that fails signature or token validation changes
\* nothing: no repository row, no scan job, no finding, no file and no queued
\* task is created or altered by it.
C4_RejectedWebhookChangesNothing ==
    [][(Handled /\ RepoExists(request.id) /\ ~Authentic) => NothingWritten]_vars

\* a request for a registered repository has been rejected for its signature
\* or token
C4_Witness == response.logged \in {"Invalid signature", "Invalid token"}

\* C5: the GitHub handler accepts a request exactly when its
\* X-Hub-Signature-256 header equals "sha256=" followed by the hex HMAC-SHA256
\* of the raw body keyed with the repository's webhook_secret; a missing, empty,
\* differently prefixed, differently keyed or differently signed header is
\* rejected as an invalid signature.
C5_GithubSignatureExact ==
    [][(Handled /\ StorageAnswered /\ request.endpoint = "github" /\ RepoExists(request.id)) =>
          (response'.logged # "Invalid signature"
             <=> /\ request.signature.present
                 /\ request.signature.prefix = "sha256="
                 /\ request.signature.digest =
                       HmacSha256Hex(repositories[request.id].webhook_secret, request.body))]_vars

\* the GitHub handler has accepted a request and answered it
C5_Witness == response.endpoint = "github" /\ response.status = 200

Queued == 1..Len(tasks)

\* Task t is inside a repository scan: the repository is marked running and
\* the scan has not left scan_repository yet
ScanInProgress(t) ==
    /\ tasks[t].kind # "archive"
    /\ tasks[t].pc \in {"create", "save", "complete", "repo_done"}

\* Task t has created its ScanJob
StartedScan(t) == t \in DOMAIN scans

\* C1: at most one scan is in progress for a repository at any time; a
\* trigger that arrives while a scan of the repository is running starts no
\* second scan.
C1_OneScanPerRepository ==
    \A r \in RepoIds :
       Cardinality({t \in Queued : tasks[t].repo = r /\ ScanInProgress(t)}) <= 1

\* C2: a repository whose status is inactive never has a scan started for it
\* by a scheduler tick or by a webhook: no task that the scheduler or a
\* webhook queued while the repository was inactive creates a ScanJob.
C2_InactiveNeverScanned ==
    \A t \in Queued :
       (tasks[t].origin \in {"scheduler", "webhook"} /\ tasks[t].trig_inactive)
          => ~StartedScan(t)

\* The webhook task t was kept from its scan by its environment: it was
\* cancelled, the repository was gone, or a storage call failed
Disturbed(t) ==
    \/ tasks[t].outcome \in {"cancelled", "not_found", "webhook_error"}
    \/ tasks[t].err = StorageErrorText

MainPush(t) == tasks[t].origin = "webhook" /\ tasks[t].payload.ref = RefMain

C9_FailureMarksJobFailed ==
    \A t \in Queued :
       (/\ Ended(t)
        /\ tasks[t].err # Null
        /\ tasks[t].outcome \notin {"cancelled", "destroyed"}
        /\ StartedScan(t))
       => /\ scans[t].status = FAILED
          /\ scans[t].error \notin {Null, ""}
          /\ tasks[t].outcome # "raised"

\* The text columns of a repositories row that a scan writes or could write
RepositoryTextColumns == {"provider", "status", "last_scan_status"}

\* C10: when the clone fails, the ScanJob is marked failed with the captured
\* message, the RepositoryRecord's status becomes error with the captured
\* message recorded in the row, and the partial clone directory is removed.
C10_CloneFailureRecorded ==
    [][\A t \in Queued :
         /\ (/\ tasks[t].clone_failed
             /\ tasks[t].pc = "h_repo" /\ tasks'[t].pc = "h_job"
             /\ RepoExists(tasks[t].repo))
            => LET row == repositories'[tasks[t].repo]
               IN  /\ row.status = ERROR \/ row.last_scan_status = ERROR
                   /\ \E c \in RepositoryTextColumns : row[c] = tasks[t].err
         /\ (/\ tasks[t].clone_failed
             /\ tasks[t].pc = "h_job" /\ tasks'[t].outcome = "error")
            => (scans'[t].status = FAILED /\ scans'[t].error = tasks[t].err)
         /\ tasks'[t].clone_failed => CloneDir(t) \notin fs']_vars

\* The archive task t was handed a corrupt upload: not a ZIP file at all, or a
\* ZIP file with a damaged member
CorruptArchive(t) == tasks[t].kind = "archive" /\ tasks[t].archive \in {"bad_zip", "bad_member"}

\* C11: when the uploaded archive is corrupt, the ScanJob ends with status
\* failed and a descriptive error, and no Finding carrying that job's id is
\* ever persisted.
C11_CorruptArchiveFails ==
    \A t \in Queued :
       CorruptArchive(t) =>
          /\ findings[t] = 0
          /\ tasks[t].outcome \in {"completed", "error"} =>
                (scans[t].status = FAILED /\ scans[t].error \notin {Null, ""})

\* C12: over any sequence and interleaving of scan attempts on a repository
\* (start, completion or error of scheduled, webhook-triggered and manual
\* scans), the stored last_scan of the repository row never decreases.
C12_LastScanNeverDecreases ==
    [][\A r \in RepoIds :
         (RepoExists(r) /\ r \in DOMAIN repositories')
            => repositories'[r].last_scan >= repositories[r].last_scan]_vars

\* ----------------------------------------------------------------------
\* Claims about the directory scan (SpecRunner)
\* ----------------------------------------------------------------------
\* the findings scan_directory has returned
ReturnedFindings == IF runner.pc = "done" THEN Range(runner.result) ELSE {}

\* C13: every finding scan_directory returns, of the internal or the
\* external scanner, has a confidence between 0 and 1.
C13_ConfidenceWithinUnitInterval ==
    \A finding \in ReturnedFindings : 0 <= finding.confidence /\ finding.confidence <= One

\* a returned finding of the company's rule whose base confidence is 1.5
C13_Witness ==
    \E finding \in ReturnedFindings :
       /\ finding.rule_id = CorpKey
       /\ runner.patterns.rules[1].confidence > One
       /\ finding.confidence = One

\* the finding's path matches a file pattern of the allowlist
MatchesFilePattern(finding) ==
    \E k \in DOMAIN runner.allowlist.files :
       /\ runner.allowlist.files[k].kind # "invalid"
       /\ re_search(runner.allowlist.files[k], finding.file_path)

\* C14: no returned finding has a file path that matches a file pattern of
\* the allowlist.
C14_AllowlistedFileNeverReturned ==
    \A finding \in ReturnedFindings : ~MatchesFilePattern(finding)

\* C15: no returned finding has a confidence below the acceptance
\* threshold.
C15_NoneBelowThreshold ==
    \A finding \in ReturnedFindings : finding.confidence >= runner.min_confidence

\* the fixture: config.env with the one line AWS_KEY=AKIA1234567890ABCDEF,
\* built-in rules only, empty allowlist, default threshold, and a working
\* directory without a file of that name
Fixture ==
    /\ runner.file = [name |-> <<"c", "o", "n", "f", "i", "g", ".", "e", "n", "v">>, dir |-> <<>>,
                      size |-> SmallSize, lines |-> <<FixtureLine>>]
    /\ runner.cwd_files = {}
    /\ runner.rule_file.kind = "absent"
    /\ runner.allowlist = NoAllowlist
    /\ runner.min_confidence = DefaultMinConfidence

\* C16: the scan of the fixture returns exactly one finding, of severity
\* critical, of the AWS access key rule, with confidence at least 0.9.
C16_FixtureGivesOneCriticalFinding ==
    (runner.pc = "done" /\ Fixture) =>
        /\ Len(runner.result) = 1
        /\ runner.result[1].severity = "critical"
        /\ runner.result[1].rule_id \in {aws_access_key.rule_id, <<"a", "w", "s", "-", "a", "c", "c", "e", "s", "s", "-", "t", "o", "k", "e", "n">>}
        /\ runner.result[1].confidence >= 9 * (One \div 10)

ExcludedName(name) == name \in skip_dirs \/ (name # <<>> /\ name[1] = ".")
UnderNodeModules(file) == \E i \in DOMAIN file.dir : file.dir[i] = <<"n", "o", "d", "e", "_", "m", "o", "d", "u", "l", "e", "s">>

\* C17: the walk enters no directory whose name is excluded or begins with
\* a dot, and a secret that lies only under node_modules is not returned.
C17_ExcludedDirectoriesStayOut ==
    /\ \A dir \in runner.visited : \A i \in DOMAIN dir : ~ExcludedName(dir[i])
    /\ (runner.pc = "done" /\ UnderNodeModules(runner.file)) => runner.result = <<>>

\* the scan is over of a key under src/node_modules that gitleaks reported
C17_Witness ==
    /\ runner.pc = "done"
    /\ runner.file.dir = <<<<"s", "r", "c">>, <<"n", "o", "d", "e", "_", "m", "o", "d", "u", "l", "e", "s">>>>
    /\ runner.gitleaks.installed /\ runner.gitleaks.items # <<>>
    /\ runner.visited = {<<>>, <<<<"s", "r", "c">>>>}
    /\ runner.result = <<>>

\* C18: the line scanner opens no file above the size cap.
C18_LargeFileNeverOpened ==
    \A file \in runner.opened : file.size <= SizeCap

\* ----------------------------------------------------------------------
\* Claims about redaction (SpecRedact)
\* ----------------------------------------------------------------------
\* C19: the redacted text is as long as the secret; of a secret of 8
\* characters or fewer every character is masked; of a longer one the
\* first four and the last four characters are the secret's and every
\* character between them is masked.
C19_RedactionShape ==
    redaction.pc \in {"shown", "again"} =>
        LET s == redaction.secret
            r == redaction.shown
            n == Len(s)
        IN /\ Len(r) = n
           /\ n <= 8 => \A i \in 1..n : r[i] = "*"
           /\ n > 8 =>
                 /\ \A i \in 1..4 : r[i] = s[i]
                 /\ \A i \in (n - 3)..n : r[i] = s[i]
                 /\ \A i \in 5..(n - 4) : r[i] = "*"

\* a secret of 8 characters without a star has been masked whole
C19_Witness ==
    /\ redaction.pc = "shown"
    /\ Len(redaction.secret) = 8
    /\ \A i \in 1..8 : redaction.secret[i] # "*" /\ redaction.shown[i] = "*"

\* C20: redacting a redacted text changes nothing.
C20_RedactionIdempotent ==
    redaction.pc = "again" => redaction.again = redaction.shown

\* a secret of 10 characters, none of them a star, redacted twice
C20_Witness ==
    /\ redaction.pc = "again"
    /\ Len(redaction.secret) = 10
    /\ \A i \in 1..10 : redaction.secret[i] # "*"
    /\ redaction.again # redaction.secret

\* ----------------------------------------------------------------------
\* ScanJob states
\* ----------------------------------------------------------------------
\* C28: completed and failed are terminal ScanJob states: once a ScanJob's
\* status is completed or failed, no later step of the same scan (repository
\* status update, notification, error handler) changes it.
C28_TerminalJobStates ==
    [][\A t \in DOMAIN scans :
          scans[t].status \in {COMPLETED, FAILED} => scans'[t].status = scans[t].status]_vars

\* The Finding records persisted with job t's id
PersistedFindings(t) == findings[t]

\* C29: whenever a ScanJob has status completed, its findings_count equals the
\* number of Finding records persisted with that job's id, for archive scans
\* and repository scans alike and under concurrent scans.
C29_CompletedCountMatchesFindings ==
    \A t \in DOMAIN scans :
       scans[t].status = COMPLETED => scans[t].findings_count = PersistedFindings(t)

\* Two scans run concurrently, one of an archive and one of a repository; the
\* repository scan has persisted a finding and is completed
C29_Witness ==
    \E t \in DOMAIN scans, u \in DOMAIN scans :
       /\ t # u
       /\ tasks[t].kind # "archive" /\ tasks[u].kind = "archive"
       /\ scans[t].status = COMPLETED /\ scans[t].findings_count = MaxFindings
       /\ PersistedFindings(t) = MaxFindings
       /\ scans[u].status = RUNNING

ExternalFailed == ~runner.gitleaks.installed \/ runner.gitleaks.fault # "none"

\* _run_regex_scan raised
InternalFailed == MergeRaises(runner.patterns)

\* what each scanner gives on the input of the run
ExternalFindings == _run_gitleaks(runner.gitleaks, runner.allowlist)
InternalFindings ==
    _run_regex_scan(runner.file, runner.cwd_files, runner.allowlist, runner.patterns.rules)

Filtered(found) == filtered_findings(found, runner.allowlist, runner.min_confidence)

InvalidRuleFile == runner.rule_file.kind \in {"unparsable", "sequence"}

\* the run's result had the rule file been absent
ResultWithBuiltInsOnly ==
    scan_directory(runner.file, runner.cwd_files, runner.allowlist,
                   _load_patterns(RuleFile("absent", <<>>)),
                   runner.min_confidence, runner.gitleaks)

\* C22: for every content of the rule file that is not a valid rule mapping
\* (unparsable, or parsable but of the wrong shape) the scan is not aborted
\* and the internal scan uses exactly the built-in rules: the result is the
\* one of a scan without rule file.
C22_InvalidRuleFileFallsBack ==
    (runner.pc = "done" /\ InvalidRuleFile) => runner.result = ResultWithBuiltInsOnly

\* the allowlist without its invalid patterns
ValidPattern(pattern) == pattern.kind # "invalid"
WithoutInvalid(allowlist) == [files |-> SelectSeq(allowlist.files, ValidPattern)]

\* C26: an invalid regex in the allowlist is skipped: the result of
\* scan_directory with an allowlist that holds an invalid regex equals the
\* result with that entry removed.
C26_InvalidPatternSkipped ==
    runner.pc = "done" =>
        runner.result = scan_directory(runner.file, runner.cwd_files,
                                       WithoutInvalid(runner.allowlist), runner.patterns,
                                       runner.min_confidence, runner.gitleaks)

\* event j of the trace concerns the finding of event i
SameFinding(i, j) ==
    /\ runner.trace[j].source = runner.trace[i].source
    /\ runner.trace[j].file_path = runner.trace[i].file_path
    /\ runner.trace[j].line_number = runner.trace[i].line_number
    /\ runner.trace[j].rule_id = runner.trace[i].rule_id
    /\ runner.trace[j].secret = runner.trace[i].secret

\* before event i, the operation op was performed on the finding of event i
Earlier(op, i) ==
    \E j \in 1..(i - 1) : runner.trace[j].op = op /\ SameFinding(i, j)

\* the allowlist is consulted for a finding after the finding was scored, and
\* a finding is persisted after the allowlist was consulted for it
ScoredThenFilteredThenPersisted ==
    \A i \in DOMAIN runner.trace :
       /\ runner.trace[i].op = "finding_allowlist" => Earlier("score", i)
       /\ runner.trace[i].op = "persist" => Earlier("finding_allowlist", i)

SchedulerStarts ==
    /\ Len(tasks') = Len(tasks) + 1
    /\ tasks'[Len(tasks')].origin = "scheduler"

\* the repository as the table has it is active and was never scanned or was
\* scanned more than the cooldown ago
Eligible(rid) ==
    /\ RepoExists(rid)
    /\ repositories[rid].status = ACTIVE
    /\ \/ repositories[rid].last_scan = NoTime
       \/ now - repositories[rid].last_scan > Cooldown

\* C23: a scheduler tick starts a scan for a repository only if the
\* repository's status is active and its last_scan is unset or more than 30
\* minutes in the past; it never starts a scan for a repository that is
\* inactive or was scanned less than 30 minutes ago.
C23_StartsOnlyEligible ==
    [][SchedulerStarts => Eligible(tasks'[Len(tasks')].repo)]_vars

\* the scheduler thread is back in _run_scheduler's loop, where
\* schedule.run_pending() can run the next tick
SchedulerFree == sched.pc = "idle"

\* C24: a scan in progress never delays the scheduler: while a scan that a
\* tick started is cloning or scanning, the scheduler is free to run the next
\* tick's eligibility check.
C24_ScanNeverDelaysScheduler ==
    \A t \in Queued :
       (tasks[t].origin = "scheduler" /\ Blocking(t)) => SchedulerFree

\* C25: every scan attempt that sets a repository's scan status to running
\* eventually sets it to completed or error, and the attempt's ScanJob
\* eventually reaches completed or failed; no repository and no ScanJob stays
\* running for ever.
C25_RunningEventuallyEnds ==
    /\ \A t \in TaskIds :
          (t \in DOMAIN scans /\ scans[t].status = RUNNING)
             ~> (t \in DOMAIN scans /\ scans[t].status \in {COMPLETED, FAILED})
    /\ \A rid \in StoredIds :
          (RepoExists(rid) /\ repositories[rid].last_scan_status = RUNNING)
             ~> (RepoExists(rid) /\ repositories[rid].last_scan_status \in {COMPLETED, ERROR})

====
